---- MODULE Spec2Model ----
(***************************************************************************)
(* State-machine model of JimengClient (src/src/index.ts): the submit /    *)
(* poll orchestration of the six synchronous generate operations, the two  *)
(* status-query operations and the three submit operations they call.      *)
(*                                                                         *)
(* One action is one stretch of code between two await points: an HTTP     *)
(* round trip together with the synchronous code that handles its          *)
(* response, or the end of a setTimeout sleep together with the loop test  *)
(* that follows it.  The remote provider is the environment: every HTTP    *)
(* round trip draws its response from a finite set of response shapes.     *)
(*                                                                         *)
(* Strings whose characters matter (provider status strings, which the     *)
(* code compares exactly and upper-cases) are sequences of one-character   *)
(* strings.  Error messages are records (kind, msg, code): kind names the  *)
(* message template of the source, msg and code are the provider's message *)
(* and code when the template embeds them.                                 *)
(***************************************************************************)
EXTENDS Integers, Sequences, FiniteSets, TLC

\* ------------------------------------------------------------------ bounds
MaxUrls == 2
\* largest config.retries given to the constructor in GenerateImageSpec
MaxCfgRetries == 5
\* largest number of entries of a query mapping given to formatQuery
MaxKeys == 3

\* ------------------------------------------------------- input value sets
Urls == {"https://x/a.png", "https://x/b.png"}
UrlLists == UNION {[1..n -> Urls] : n \in 0..MaxUrls}
TaskIds == {"T1", "T2"}
\* values of config.retries given to the constructor (0: not given)
CfgRetries == {0, 1}

\* ---------------------------------------------------------------- strings
in_queue == <<"i","n","_","q","u","e","u","e">>
generating == <<"g","e","n","e","r","a","t","i","n","g">>
processing == <<"p","r","o","c","e","s","s","i","n","g">>
done == <<"d","o","n","e">>
fail == <<"f","a","i","l">>
failed == <<"f","a","i","l","e","d">>
PENDING == <<"P","E","N","D","I","N","G">>
RUNNING == <<"R","U","N","N","I","N","G">>
SUCCEEDED == <<"S","U","C","C","E","E","D","E","D">>
FAILED == <<"F","A","I","L","E","D">>
\* provider strings outside the table, and case variants of table entries
pending == <<"p","e","n","d","i","n","g">>
weird_state == <<"w","e","i","r","d","_","s","t","a","t","e">>
DONE == <<"D","O","N","E">>
In_Queue == <<"I","n","_","Q","u","e","u","e">>
Processing == <<"P","r","o","c","e","s","s","i","n","g">>
\* taskData.status absent from the response
UNDEFINED == <<"undefined">>

TableEntries == {in_queue, generating, processing, done, fail, failed}
CaseVariants == {DONE, In_Queue, Processing}
Unlisted == {pending, weird_state}
StatusStrings == TableEntries \cup CaseVariants \cup Unlisted
CanonicalStates == {PENDING, RUNNING, SUCCEEDED, FAILED}

UpperOf == [a |-> "A", b |-> "B", c |-> "C", d |-> "D", e |-> "E", f |-> "F",
            g |-> "G", h |-> "H", i |-> "I", j |-> "J", k |-> "K", l |-> "L",
            m |-> "M", n |-> "N", o |-> "O", p |-> "P", q |-> "Q", r |-> "R",
            s |-> "S", t |-> "T", u |-> "U", v |-> "V", w |-> "W", x |-> "X",
            y |-> "Y", z |-> "Z"]
LowerOf == [A |-> "a", B |-> "b", C |-> "c", D |-> "d", E |-> "e", F |-> "f",
            G |-> "g", H |-> "h", I |-> "i", J |-> "j", K |-> "k", L |-> "l",
            M |-> "m", N |-> "n", O |-> "o", P |-> "p", Q |-> "q", R |-> "r",
            S |-> "s", T |-> "t", U |-> "u", V |-> "v", W |-> "w", X |-> "x",
            Y |-> "y", Z |-> "z"]

\* String.prototype.toUpperCase
ToUpperCase(str) ==
    [k \in 1..Len(str) |-> IF str[k] \in DOMAIN UpperOf THEN UpperOf[str[k]] ELSE str[k]]

\* String.prototype.toLowerCase (used only to state case-insensitivity)
ToLowerCase(str) ==
    [k \in 1..Len(str) |-> IF str[k] \in DOMAIN LowerOf THEN LowerOf[str[k]] ELSE str[k]]

\* ----------------------------------------------------------- ApiResponse
NoError == [kind |-> "", msg |-> "", code |-> 0]
Err(kind, msg, code) == [kind |-> kind, msg |-> msg, code |-> code]

\* an ApiResponse with every optional field undefined; raw_response tells
\* whether the body of the response (response.data) is attached
ApiResponse ==
    [success |-> FALSE, status |-> UNDEFINED, error |-> NoError, task_id |-> "",
     image_urls |-> <<>>, video_urls |-> <<>>,
     data |-> [present |-> FALSE, image_urls |-> <<>>],
     raw_response |-> FALSE]

Failure(e) == [ApiResponse EXCEPT !.error = e]

\* an attempt inside a retry loop either returns an ApiResponse or throws
Return(r) == [thrown |-> FALSE, value |-> r, error |-> NoError]
Throw(e) == [thrown |-> TRUE, value |-> ApiResponse, error |-> e]

\* ------------------------------------------------------------ operations
ImageOps == {"generateJimengV40Image", "generateJimengI2IV30Image",
             "generateJimengT2IV31Image", "generateJimengT2IV30Image"}
VideoOps == {"generateVideo", "generateI2VVideo"}
GenerateOps == ImageOps \cup VideoOps
\* the operations a caller invokes: the polling ones and generateImage
Operations == GenerateOps \cup {"generateImage"}

\* const maxAttempts
maxAttempts(o) == IF o \in ImageOps THEN 60 ELSE 100
pollingInterval == 5000
ModerationCodes == {50411, 50511, 50412, 50512, 50413}

\* ------------------------------------------------------------- parameters
\* req_key values, character by character (the code splits them on '_')
jimeng_vgfm_t2v_l20 == <<"j", "i", "m", "e", "n", "g", "_", "v", "g", "f", "m", "_", "t", "2", "v", "_", "l", "2", "0">>
jimeng_vgfm_i2v_l20 == <<"j", "i", "m", "e", "n", "g", "_", "v", "g", "f", "m", "_", "i", "2", "v", "_", "l", "2", "0">>
NoReqKey == <<>>

NoParams ==
    [prompt |-> "", width |-> 0, height |-> 0, image_url |-> "",
     req_key |-> NoReqKey, region |-> ""]
\* the inputs drawn for each operation (0 and "" stand for an absent field)
ParamsOf(o) ==
    IF o = "generateJimengV40Image"
    THEN {[NoParams EXCEPT !.prompt = "a cat", !.width = wh[1], !.height = wh[2]] :
             wh \in {<<0, 0>>, <<512, 512>>, <<2048, 2048>>, <<2048, 0>>, <<4096, 8192>>}}
         \cup {NoParams}
    ELSE IF o = "generateI2VVideo"
    THEN {[NoParams EXCEPT !.prompt = q, !.image_url = u] :
             q \in {"", "a cat"}, u \in {"", "https://x/in.png"}}
    ELSE IF o = "generateVideo"
    THEN {[NoParams EXCEPT !.prompt = q] : q \in {"", "a cat"}}
         \cup {[NoParams EXCEPT !.prompt = "a cat", !.region = "cn-south-1"]}
    ELSE {[NoParams EXCEPT !.prompt = q] : q \in {"", "a cat"}}

\* --------------------------------------------------------- HTTP responses
\* net: "err" is an exception raised by axios before any response arrives;
\* http is response.status; code, topStatus, msg are response.data.code,
\* response.data.status and response.data.message; metaError is
\* response.data.ResponseMetadata.Error; hasData, task_id, st, urls and
\* video_url describe response.data.data (st its status, urls its image_urls
\* or the urls of its resp_data).
HttpOk ==
    [net |-> "ok", http |-> 200, code |-> 10000, topStatus |-> 0, msg |-> "",
     metaError |-> FALSE, hasData |-> TRUE, task_id |-> "", st |-> UNDEFINED,
     urls |-> <<>>, video_url |-> ""]
NetErr == [HttpOk EXCEPT !.net = "err", !.http = 0, !.code = 0, !.hasData = FALSE]
HttpStatus(h) == [HttpOk EXCEPT !.http = h, !.code = 0, !.hasData = FALSE]
AppError(c, m) == [HttpOk EXCEPT !.code = c, !.msg = m, !.hasData = FALSE]
MetaError == [HttpOk EXCEPT !.code = 0, !.metaError = TRUE, !.msg = "rejected", !.hasData = FALSE]
NoData == [HttpOk EXCEPT !.hasData = FALSE]
Accepted(t) == [HttpOk EXCEPT !.task_id = t]
TaskStatus(s, u, v) == [HttpOk EXCEPT !.st = s, !.urls = u, !.video_url = v]

Messages ==
    {"", "rejected", "Image Decode Error", "image format unsupported", "image url"}

SubmitResponses ==
    {NetErr, HttpStatus(429), HttpStatus(500), MetaError, NoData}
    \cup {AppError(50000, m) : m \in Messages}
    \cup {Accepted(t) : t \in TaskIds \cup {""}}
    \cup {[Accepted("T1") EXCEPT !.code = 0, !.topStatus = 10000],
          [Accepted("T2") EXCEPT !.code = 50000, !.msg = "rejected"],
          [Accepted("T1") EXCEPT !.http = 500]}

QueryResponses ==
    {NetErr, HttpStatus(429), HttpStatus(500), NoData}
    \cup {AppError(c, "rejected") : c \in {50411, 50511, 50000}}
    \cup {TaskStatus(s, <<>>, "") : s \in StatusStrings \cup {UNDEFINED}}
    \cup {TaskStatus(done, u, "") : u \in UrlLists}
    \cup {TaskStatus(processing, <<"https://x/a.png">>, ""),
          TaskStatus(done, <<>>, "https://x/b.png"),
          TaskStatus(done, <<"https://x/a.png">>, "https://x/b.png")}

\* ---------------------------------------------------------- generateImage
\* response.data.data.image_urls of the synchronous CVProcess answer
Generated(u) == [HttpOk EXCEPT !.urls = u]
GenerateImageResponses ==
    {NetErr, HttpStatus(429), HttpStatus(500), MetaError, NoData}
    \cup {Generated(u) : u \in UrlLists}

\* one pass through the try block of generateImage
generateImageAttempt(prm, resp) ==
    IF prm.prompt = "" THEN Throw(Err("missing_prompt", "", 0))
    ELSE IF resp.net = "err" THEN Throw(Err("network", "", 0))
    ELSE IF resp.http # 200 THEN Throw(Err("http", "", resp.http))
    ELSE IF resp.metaError
    THEN Throw(Err("api", IF resp.msg = "" THEN "unknown error" ELSE resp.msg, 0))
    ELSE IF resp.hasData /\ Len(resp.urls) > 0
    THEN Return([ApiResponse EXCEPT !.success = TRUE, !.image_urls = resp.urls,
                                    !.raw_response = TRUE])
    ELSE Return([Failure(Err("no_image", "", 0)) EXCEPT !.raw_response = TRUE])

\* a catch clause that does not count the failed attempt
retryCountAfterCatch_NotCounted(k) == k

\* retryCount++ in the catch clause of generateImage
retryCountAfterCatch(k) == k + 1

\* the backoff of generateImage without its 10 s ceiling
generateImageWaitTime_Uncapped(k) == 1000 * 2^(k - 1)

\* const waitTime = Math.min(1000 * Math.pow(2, retryCount - 1), 10000)
generateImageWaitTime(k) ==
    IF 1000 * 2^(k - 1) < 10000 THEN 1000 * 2^(k - 1) ELSE 10000

\* -------------------------------------------------------- submitAsyncTask
\* `${response.data.message || '未知错误'}`
MessageOr(m) == IF m = "" THEN "unknown error" ELSE m

\* the try block of submitAsyncTask (lines 381-436)
submitAsyncTry(resp) ==
    IF resp.net = "err" THEN Throw(Err("network", "", 0))
    ELSE IF resp.http # 200 THEN Throw(Err("http", "", resp.http))
    ELSE IF resp.code # 10000 THEN Throw(Err("api", MessageOr(resp.msg), resp.code))
    ELSE IF resp.hasData /\ resp.task_id # ""
    THEN Return([ApiResponse EXCEPT !.success = TRUE, !.task_id = resp.task_id,
                                    !.raw_response = TRUE])
    ELSE Return([Failure(Err("bad_format", "", 0)) EXCEPT !.raw_response = TRUE])

\* a catch clause that lets the exception pass to the caller
catchReturnsFailure_Rethrows(attempt) == attempt

\* catch (error) { return { success: false, error: error.message } } of
\* submitAsyncTask and queryAsyncTask
catchReturnsFailure(attempt) ==
    IF attempt.thrown THEN Return(Failure(attempt.error)) ELSE attempt

\* submitAsyncTask without the test of response.status
submitAsyncTask_NoStatusCheck(resp) ==
    catchReturnsFailure(submitAsyncTry([resp EXCEPT !.http = 200]))

\* how a call of submitAsyncTask ends: a returned ApiResponse, or an
\* exception passed to the caller
submitAsyncTask(resp) == catchReturnsFailure(submitAsyncTry(resp))

\* an area check that has no upper limit
AreaRejected_NoUpperLimit(prm) ==
    /\ prm.width # 0 /\ prm.height # 0
    /\ prm.width * prm.height < 1024 * 1024

\* submitJimengV40Task: the width * height check made before any request
AreaRejected(prm) ==
    /\ prm.width # 0 /\ prm.height # 0
    /\ \/ prm.width * prm.height < 1024 * 1024
       \/ prm.width * prm.height > 4096 * 4096

\* width, height and size of a JimengV40Params or of a request body; 0
\* stands for an absent field (the code copies a field only when it is truthy)
NoSizes == [width |-> 0, height |-> 0, size |-> 0]

\* the jimeng-v40-generate tool: a size of at most 4096 given without width
\* and height is taken for a side length and squared
processedArgs(args) ==
    IF args.size # 0 /\ args.width = 0 /\ args.height = 0 /\ args.size <= 4096
    THEN [args EXCEPT !.size = args.size * args.size]
    ELSE args

\* cleanParams without the two adjustments of size
cleanParams_SizeAsGiven(prm) ==
    IF prm.width # 0 /\ prm.height # 0
    THEN IF AreaRejected(prm)
         THEN [rejected |-> TRUE, width |-> 0, height |-> 0, size |-> 0]
         ELSE [rejected |-> FALSE, width |-> prm.width, height |-> prm.height, size |-> 0]
    ELSE IF prm.width = 0 /\ prm.height = 0 /\ prm.size # 0
    THEN [rejected |-> FALSE, width |-> 0, height |-> 0, size |-> prm.size]
    ELSE [rejected |-> FALSE, width |-> 0, height |-> 0, size |-> 0]

\* cleanParams copying size whenever it is given
cleanParams_SizeBesideWidth(prm) ==
    IF prm.width # 0 /\ prm.height # 0
    THEN IF AreaRejected(prm)
         THEN [rejected |-> TRUE, width |-> 0, height |-> 0, size |-> 0]
         ELSE [rejected |-> FALSE, width |-> prm.width, height |-> prm.height,
               size |-> prm.size]
    ELSE IF prm.size # 0
    THEN [rejected |-> FALSE, width |-> 0, height |-> 0,
          size |-> IF prm.size < 1024 * 1024 THEN 1024 * 1024
                   ELSE IF prm.size > 4096 * 4096 THEN 4096 * 4096
                   ELSE prm.size]
    ELSE [rejected |-> FALSE, width |-> 0, height |-> 0, size |-> 0]

\* submitJimengV40Task, lines 560-592: the width, height and size fields of
\* cleanParams, or rejected when the function returns before building them
cleanParams(prm) ==
    IF prm.width # 0 /\ prm.height # 0
    THEN IF AreaRejected(prm)
         THEN [rejected |-> TRUE, width |-> 0, height |-> 0, size |-> 0]
         ELSE [rejected |-> FALSE, width |-> prm.width, height |-> prm.height, size |-> 0]
    ELSE IF prm.width = 0 /\ prm.height = 0 /\ prm.size # 0
    THEN [rejected |-> FALSE, width |-> 0, height |-> 0,
          size |-> IF prm.size < 1024 * 1024 THEN 1024 * 1024
                   ELSE IF prm.size > 4096 * 4096 THEN 4096 * 4096
                   ELSE prm.size]
    ELSE [rejected |-> FALSE, width |-> 0, height |-> 0, size |-> 0]

\* -------------------------------------------------------- submitVideoTask
\* lastError.message.includes('429') || lastError.message.includes('并发限制'):
\* true of the message built for HTTP status 429; a response body that happens
\* to contain the digits 429 is not among the responses drawn here
Mentions429(e) == e.kind = "rate_limit" \/ e.code = 429

\* one pass through the try block of submitVideoTask
submitVideoAttempt(prm, resp) ==
    IF prm.prompt = "" THEN Throw(Err("missing_prompt", "", 0))
    ELSE IF resp.net = "err" THEN Throw(Err("network", "", 0))
    ELSE IF resp.http # 200
    THEN IF resp.http = 429 THEN Throw(Err("rate_limit", "", 429))
         ELSE Throw(Err("http", "", resp.http))
    ELSE IF resp.metaError THEN Throw(Err("api", MessageOr(resp.msg), resp.code))
    ELSE IF resp.hasData /\ resp.task_id # ""
    THEN Return([ApiResponse EXCEPT !.success = TRUE, !.task_id = resp.task_id,
                                    !.raw_response = TRUE])
    ELSE Return([Failure(Err("bad_format", "", 0)) EXCEPT !.raw_response = TRUE])

\* the result returned once retryCount > retries in submitVideoTask
submitVideoGiveUp(e) ==
    IF Mentions429(e) THEN Failure(Err("rate_limited_hint", "", 0)) ELSE Failure(e)

\* ---------------------------------------------------------- submitI2VTask
\* errorMsg.includes('Image Decode Error') || ...('image format unsupported')
\* || ...('image url'): each message drawn here that contains one of the three
\* texts is that text itself
ImageFormatTexts == {"Image Decode Error", "image format unsupported", "image url"}

\* a test that knows the first of the three texts only
IsImageFormatError_DecodeOnly(e) == e.msg = "Image Decode Error"

IsImageFormatError(e) == e.msg \in ImageFormatTexts

\* one pass through the try block of submitI2VTask; axios is called without
\* validateStatus, so a non-2xx status is an exception raised by axios
submitI2VAttempt(prm, resp) ==
    IF prm.image_url = "" THEN Throw(Err("missing_image", "", 0))
    ELSE IF resp.net = "err" THEN Throw(Err("network", "", 0))
    ELSE IF resp.http < 200 \/ resp.http > 299 THEN Throw(Err("axios_status", "", resp.http))
    ELSE IF resp.http = 200
    THEN IF resp.topStatus = 10000 \/ resp.code = 10000
         THEN IF resp.hasData /\ resp.task_id # ""
              THEN Return([ApiResponse EXCEPT !.success = TRUE, !.task_id = resp.task_id,
                                              !.raw_response = TRUE])
              ELSE Throw(Err("no_task_id", "", 0))
         ELSE Throw(Err("api", MessageOr(resp.msg),
                        IF resp.code # 0 THEN resp.code ELSE resp.topStatus))
    ELSE Throw(Err("http", "", resp.http))

\* the video submissions with the backoff of generateImage
submitWaitTime_Backoff(k) == generateImageWaitTime(k)

\* const waitTime = 60000 (submitVideoTask), waitSeconds * 1000 with
\* waitSeconds = 60 (submitI2VTask): the wait before retry k
submitWaitTime(k) == 60 * 1000

\* retries of submitVideoTask, getVideoTaskResult and submitI2VTask
videoRetries == 1

\* --------------------------------------------------------- queryAsyncTask
\* the switch of queryAsyncTask with a default branch that keeps the string as is
queryAsyncNormalizedStatus_NoUpperCase(taskStatus) ==
    IF taskStatus = in_queue THEN PENDING
    ELSE IF taskStatus = generating \/ taskStatus = processing THEN RUNNING
    ELSE IF taskStatus = done THEN SUCCEEDED
    ELSE IF taskStatus = fail \/ taskStatus = failed THEN FAILED
    ELSE taskStatus

\* the switch of queryAsyncTask
queryAsyncNormalizedStatus(taskStatus) ==
    IF taskStatus = in_queue THEN PENDING
    ELSE IF taskStatus = generating \/ taskStatus = processing THEN RUNNING
    ELSE IF taskStatus = done THEN SUCCEEDED
    ELSE IF taskStatus = fail \/ taskStatus = failed THEN FAILED
    ELSE ToUpperCase(taskStatus)

\* error: response.data.message (undefined when the response has none)
ProviderMessage(m) == IF m = "" THEN NoError ELSE Err("provider_message", m, 0)

\* the try block of queryAsyncTask (lines 449-546)
queryAsyncTry(resp) ==
    IF resp.net = "err" THEN Throw(Err("network", "", 0))
    ELSE IF resp.http # 200 THEN Throw(Err("http", "", resp.http))
    ELSE IF resp.code # 10000
    THEN IF resp.code \in ModerationCodes
         THEN Return([ApiResponse EXCEPT !.status = FAILED, !.error = ProviderMessage(resp.msg),
                                         !.raw_response = TRUE])
         ELSE Throw(Err("api", MessageOr(resp.msg), resp.code))
    ELSE IF ~resp.hasData \/ resp.st = UNDEFINED THEN Throw(Err("type_error", "", 0))
    ELSE Return([ApiResponse EXCEPT !.success = TRUE,
                                    !.status = queryAsyncNormalizedStatus(resp.st),
                                    !.data = [present |-> TRUE, image_urls |-> resp.urls],
                                    !.raw_response = TRUE])

\* how a call of queryAsyncTask ends
queryAsyncTask(resp) == catchReturnsFailure(queryAsyncTry(resp))

\* ----------------------------------------------------- getVideoTaskResult
\* the switch of getVideoTaskResult
videoNormalizedStatus(taskStatus) ==
    IF taskStatus = in_queue THEN PENDING
    ELSE IF taskStatus = processing THEN RUNNING
    ELSE IF taskStatus = done THEN SUCCEEDED
    ELSE IF taskStatus = fail THEN FAILED
    ELSE ToUpperCase(taskStatus)

\* videoUrls: the urls of resp_data, then video_url when it is present
videoUrls(resp) ==
    IF resp.video_url # "" THEN Append(resp.urls, resp.video_url) ELSE resp.urls

\* one pass through the try block of getVideoTaskResult; axios is called
\* without validateStatus, so a non-2xx status is an exception raised by axios
getVideoTaskResultAttempt(resp) ==
    IF resp.net = "err" THEN Throw(Err("network", "", 0))
    ELSE IF resp.http < 200 \/ resp.http > 299 THEN Throw(Err("axios_status", "", resp.http))
    ELSE IF resp.http = 200
    THEN IF resp.code # 10000
         THEN IF resp.code = 50411
              THEN Return([ApiResponse EXCEPT !.status = FAILED,
                                              !.error = Err("content_safety", resp.msg, 0),
                                              !.raw_response = TRUE])
              ELSE Throw(Err("business", resp.msg, resp.code))
         ELSE IF ~resp.hasData \/ resp.st = UNDEFINED THEN Throw(Err("type_error", "", 0))
         ELSE Return([ApiResponse EXCEPT !.success = TRUE,
                                         !.status = videoNormalizedStatus(resp.st),
                                         !.video_urls = videoUrls(resp),
                                         !.raw_response = TRUE])
    ELSE Throw(Err("http", "", resp.http))

\* --------------------------------------------- the polling loops' bodies
\* imageLoopBody with every status other than SUCCEEDED taken for a failure
imageLoopBody_NotSucceededFails(r, tid) ==
    IF r.success /\ r.status = SUCCEEDED /\ r.data.present /\ Len(r.data.image_urls) > 0
    THEN [returns |-> TRUE,
          value |-> [ApiResponse EXCEPT !.success = TRUE, !.image_urls = r.data.image_urls,
                                        !.task_id = tid,
                                        !.raw_response = r.raw_response]]
    ELSE IF r.success /\ ~(r.status = SUCCEEDED /\ r.data.present)
    THEN [returns |-> TRUE,
          value |-> [Failure(IF r.error # NoError THEN r.error ELSE Err("task_failed", "", 0))
                       EXCEPT !.task_id = tid, !.raw_response = r.raw_response]]
    ELSE [returns |-> FALSE, value |-> ApiResponse]

\* imageLoopBody returning the URLs of a status result whatever its status
imageLoopBody_UrlsOfAnyStatus(r, tid) ==
    IF r.success /\ r.data.present /\ Len(r.data.image_urls) > 0
    THEN [returns |-> TRUE,
          value |-> [ApiResponse EXCEPT !.success = TRUE, !.image_urls = r.data.image_urls,
                                        !.task_id = tid,
                                        !.raw_response = r.raw_response]]
    ELSE IF r.success /\ ~(r.status = SUCCEEDED /\ r.data.present) /\ r.status = FAILED
    THEN [returns |-> TRUE,
          value |-> [Failure(IF r.error # NoError THEN r.error ELSE Err("task_failed", "", 0))
                       EXCEPT !.task_id = tid, !.raw_response = r.raw_response]]
    ELSE [returns |-> FALSE, value |-> ApiResponse]

\* what the body of the for loop does with the result of one status query:
\* returns = TRUE when it executes a return statement, value is what it returns
imageLoopBody(r, tid) ==
    IF r.success /\ r.status = SUCCEEDED /\ r.data.present /\ Len(r.data.image_urls) > 0
    THEN [returns |-> TRUE,
          value |-> [ApiResponse EXCEPT !.success = TRUE, !.image_urls = r.data.image_urls,
                                        !.task_id = tid,
                                        !.raw_response = r.raw_response]]
    ELSE IF r.success /\ ~(r.status = SUCCEEDED /\ r.data.present) /\ r.status = FAILED
    THEN [returns |-> TRUE,
          value |-> [Failure(IF r.error # NoError THEN r.error ELSE Err("task_failed", "", 0))
                       EXCEPT !.task_id = tid, !.raw_response = r.raw_response]]
    ELSE [returns |-> FALSE, value |-> ApiResponse]

\* videoLoopBody returning only the first URL
videoLoopBody_FirstUrlOnly(r, tid) ==
    IF r.success /\ (r.status = SUCCEEDED \/ r.status = done) /\ Len(r.video_urls) > 0
    THEN [returns |-> TRUE,
          value |-> [ApiResponse EXCEPT !.success = TRUE, !.video_urls = <<r.video_urls[1]>>,
                                        !.task_id = tid,
                                        !.raw_response = r.raw_response]]
    ELSE IF r.success /\ r.status = FAILED
    THEN [returns |-> TRUE,
          value |-> [Failure(Err("task_failed", "", 0))
                       EXCEPT !.task_id = tid, !.raw_response = r.raw_response]]
    ELSE [returns |-> FALSE, value |-> ApiResponse]

videoLoopBody(r, tid) ==
    IF r.success /\ (r.status = SUCCEEDED \/ r.status = done) /\ Len(r.video_urls) > 0
    THEN [returns |-> TRUE,
          value |-> [ApiResponse EXCEPT !.success = TRUE, !.video_urls = r.video_urls,
                                        !.task_id = tid,
                                        !.raw_response = r.raw_response]]
    ELSE IF r.success /\ r.status = FAILED
    THEN [returns |-> TRUE,
          value |-> [Failure(Err("task_failed", "", 0))
                       EXCEPT !.task_id = tid, !.raw_response = r.raw_response]]
    ELSE [returns |-> FALSE, value |-> ApiResponse]

\* a loop body that returns the failure of a status query
loopBody_QueryFailureReturns(o, r, tid) ==
    IF ~r.success
    THEN [returns |-> TRUE, value |-> [Failure(r.error) EXCEPT !.task_id = tid]]
    ELSE IF o \in ImageOps THEN imageLoopBody(r, tid) ELSE videoLoopBody(r, tid)

loopBody(o, r, tid) == IF o \in ImageOps THEN imageLoopBody(r, tid) ELSE videoLoopBody(r, tid)

\* pollTimeout without the task_id field
pollTimeout_NoTaskId(tid) == Failure(Err("poll_timeout", "", 0))

\* the return statement after the for loop
pollTimeout(tid) == [Failure(Err("poll_timeout", "", 0)) EXCEPT !.task_id = tid]

\* submissionRejected with the success test lost
submissionRejected_OnlyMissingId(tr) == tr.success /\ tr.task_id = ""

\* the guard of the early return after the submission
submissionRejected(tr) == ~tr.success \/ tr.task_id = ""
\* error: taskResult.error || '提交任务失败'
submissionFailure(tr) ==
    Failure(IF tr.error # NoError THEN tr.error ELSE Err("submit_failed", "", 0))

\* ------------------------------------------------------------------ state
VARIABLES
    submission,       \* the last call of submitJimengV40Task taken on its own: its
                      \* arguments, whether they came through the jimeng-v40-generate
                      \* tool, and the request body it built or its refusal
    formatting,       \* the last two calls of formatQuery: parameters and output
    signing,          \* the last two calls of signV4Request: inputs and signature
    calls,            \* the generate operations that run concurrently on the client
                      \* in ConcurrentSpec: for each caller, the locals of its call
    signal,           \* the caller's cancellation signal or deadline for the operation
                      \* in progress: "none" or "raised" (no operation reads it)
    client,           \* the JimengClient: how its construction ended, its accessKey
                      \* and secretKey, and the config and environment it was built from
    settings,         \* this.endpoint, this.host, this.region, this.service, this.timeout
    request,          \* the HTTP request this operation sent last: the function that
                      \* sent it, its axios options, the region it was signed for and
                      \* the task_id in its body
    retries,          \* this.retries
    op,               \* the generate operation in progress ("none" before the first call)
    params,           \* its params argument
    pc,               \* where the operation stands: idle, submit, backoff,
                      \* submitCooldown, query, queryCooldown, pollSleep, done, or
                      \* raised when it ended by an exception passed to its caller
    retryCount,       \* retryCount of generateImage / submitVideoTask / submitI2VTask
    taskResult,       \* taskResult of the generate operation
    i,                \* i of the for loop
    queryRetryCount,  \* retryCount of getVideoTaskResult
    result,           \* result of the latest status query that returned
    ret,              \* the ApiResponse the generate operation returned
    resp,             \* the response of the latest HTTP round trip
    sleepMs,          \* the delay of the setTimeout being awaited (0: none)
    submitLog,        \* history: one entry per submission request sent by this
                      \* operation: "transport" when axios raised a network error
                      \* or timeout, "response" when an HTTP response arrived
    nQueries,         \* history: status queries (queryAsyncTask / getVideoTaskResult calls) started
    priorInProgress   \* history: every status query before the latest one reported PENDING or RUNNING

vars == <<submission, formatting, signing, calls, signal, client, settings, request, retries, op, params, pc, retryCount, taskResult, i, queryRetryCount, result,
          ret, resp, sleepMs, submitLog, nQueries, priorInProgress>>

\* the variables of the one operation followed in Spec
sequentialVars ==
    <<submission, signal, request, retries, op, params, pc, retryCount, taskResult, i, queryRetryCount,
      result, ret, resp, sleepMs, submitLog, nQueries, priorInProgress>>

\* how an HTTP round trip ended, for submitLog
roundTrip(rsp) == IF rsp.net = "err" THEN "transport" ELSE "response"

NoResponse == [HttpOk EXCEPT !.net = "none", !.http = 0, !.code = 0, !.hasData = FALSE]

\* the config fields other than the credentials and retries; "" and 0 are
\* absent values
NoSettings == [endpoint |-> "", host |-> "", region |-> "", service |-> "", timeout |-> 0]

\* constructor, lines 138-143: each field is the configured value or a default
constructorSettings(cfg) ==
    [endpoint |-> IF cfg.endpoint # "" THEN cfg.endpoint ELSE "https://visual.volcengineapi.com",
     host     |-> IF cfg.host # "" THEN cfg.host ELSE "visual.volcengineapi.com",
     region   |-> IF cfg.region # "" THEN cfg.region ELSE "cn-north-1",
     service  |-> IF cfg.service # "" THEN cfg.service ELSE "cv",
     timeout  |-> IF cfg.timeout # 0 THEN cfg.timeout ELSE 30000]

\* the client of Init is built from { accessKey, secretKey, timeout: 5000 }
InitSettings == constructorSettings([NoSettings EXCEPT !.timeout = 5000])

\* a signer that ignores its region argument
usedRegion_ClientOnly(region, thisRegion) == thisRegion

\* const usedRegion = region || this.region
usedRegion(region, thisRegion) == IF region # "" THEN region ELSE thisRegion

\* str.split('_'): the pieces of str between the underscores
RECURSIVE SplitFrom(_, _, _)
SplitFrom(str, k, piece) ==
    IF k > Len(str) THEN <<piece>>
    ELSE IF str[k] = "_" THEN <<piece>> \o SplitFrom(str, k + 1, <<>>)
    ELSE SplitFrom(str, k + 1, Append(piece, str[k]))

\* a region name for each piece of a req_key that can reach the signer
\* ("" for undefined)
PieceText(piece) ==
    IF piece = <<"t", "2", "v">> THEN "t2v"
    ELSE IF piece = <<"i", "2", "v">> THEN "i2v"
    ELSE ""

\* reqKey.split('_')[2]
reqKeyRegion(reqKey) ==
    LET pieces == SplitFrom(reqKey, 1, <<>>) IN
    IF Len(pieces) >= 3 THEN PieceText(pieces[3]) ELSE ""

\* the reqKey argument of getVideoTaskResult: params.req_key, with the
\* default of the parameter (generateVideo) or params.req_key ||
\* "jimeng_vgfm_i2v_l20" (generateI2VVideo)
videoReqKey(o, prm) ==
    IF prm.req_key # NoReqKey THEN prm.req_key
    ELSE IF o = "generateVideo" THEN jimeng_vgfm_t2v_l20 ELSE jimeng_vgfm_i2v_l20

\* axios options: timeout 0 stands for no timeout option (axios then never
\* times out); validateStatus "null" accepts every status, "default" makes
\* axios raise an error for a status outside 200..299
NoRequest == [fn |-> "none", timeout |-> 0, validateStatus |-> "", region |-> "", task_id |-> ""]
Request(fn, timeout, validateStatus, region, tid) ==
    [fn |-> fn, timeout |-> timeout, validateStatus |-> validateStatus,
     region |-> region, task_id |-> tid]

\* whether axios raises an error instead of returning the response
axiosRaises(req, rsp) ==
    \/ rsp.net = "err"
    \/ req.validateStatus = "default" /\ (rsp.http < 200 \/ rsp.http > 299)

\* the request each function builds: signV4Request, then the axios call
generateImageRequest(prm, st) ==
    Request("generateImage", st.timeout, "null", usedRegion(prm.region, st.region), "")
submitAsyncTaskRequest(st) ==
    Request("submitAsyncTask", st.timeout, "null", usedRegion("", st.region), "")
queryAsyncTaskRequest(st, tid) ==
    Request("queryAsyncTask", st.timeout, "null", usedRegion("", st.region), tid)
submitVideoTaskRequest(prm, st) ==
    Request("submitVideoTask", st.timeout, "null", usedRegion(prm.region, st.region), "")
submitI2VTaskRequest(prm, st) ==
    Request("submitI2VTask", 0, "default", usedRegion(prm.region, st.region), "")
getVideoTaskResultRequest(reqKey, st, tid) ==
    Request("getVideoTaskResult", 0, "default", usedRegion(reqKeyRegion(reqKey), st.region), tid)

\* constructor: this.retries = config.retries || 3
constructorRetries(cfg) == IF cfg = 0 THEN 3 ELSE cfg

\* config.accessKey / config.secretKey and process.env.JIMENG_ACCESS_KEY /
\* process.env.JIMENG_SECRET_KEY; "" is an absent (undefined or empty) value
Credentials(ak, sk) == [accessKey |-> ak, secretKey |-> sk]
ConfigCredentials == {Credentials(ak, sk) : ak \in {"", "AK"}, sk \in {"", "SK"}}
EnvCredentials == {Credentials(ak, sk) : ak \in {"", "ENV_AK"}, sk \in {"", "ENV_SK"}}

\* config.accessKey || process.env.JIMENG_ACCESS_KEY || ''
FirstPresent(c, e) == IF c # "" THEN c ELSE e

\* no client has been constructed
NoClient ==
    [state |-> "none", accessKey |-> "", secretKey |-> "",
     config |-> Credentials("", ""), env |-> Credentials("", "")]

\* a constructor that throws only when both credentials are missing
constructor_ThrowsIfBothMissing(config, env) ==
    LET ak == FirstPresent(config.accessKey, env.accessKey)
        sk == FirstPresent(config.secretKey, env.secretKey) IN
    [state |-> IF ak = "" /\ sk = "" THEN "failed" ELSE "constructed",
     accessKey |-> ak, secretKey |-> sk, config |-> config, env |-> env]

\* the constructor: the two credentials, then
\* if (!this.accessKey || !this.secretKey) throw
constructor(config, env) ==
    LET ak == FirstPresent(config.accessKey, env.accessKey)
        sk == FirstPresent(config.secretKey, env.secretKey) IN
    [state |-> IF ak = "" \/ sk = "" THEN "failed" ELSE "constructed",
     accessKey |-> ak, secretKey |-> sk, config |-> config, env |-> env]

\* ------------------------------------------------------------ formatQuery
\* the UTF-16 code unit of a character: Array.prototype.sort() without a
\* comparator orders strings by their code units
charCodeAt(ch) ==
    [A |-> 65, V |-> 86, a |-> 97, c |-> 99, e |-> 101, i |-> 105, n |-> 110, o |-> 111,
     r |-> 114, s |-> 115, t |-> 116][ch]

\* a < b for two strings, as the default comparison of sort() decides it:
\* by the first code unit that differs, a proper prefix coming first
RECURSIVE StringLess(_, _)
StringLess(a, b) ==
    IF b = <<>> THEN FALSE
    ELSE IF a = <<>> THEN TRUE
    ELSE IF charCodeAt(Head(a)) # charCodeAt(Head(b))
    THEN charCodeAt(Head(a)) < charCodeAt(Head(b))
    ELSE StringLess(Tail(a), Tail(b))

\* Array.prototype.sort(): the strings of keys in ascending order
RECURSIVE InsertSorted(_, _)
InsertSorted(key, sorted) ==
    IF sorted = <<>> THEN <<key>>
    ELSE IF StringLess(Head(sorted), key) THEN <<Head(sorted)>> \o InsertSorted(key, Tail(sorted))
    ELSE <<key>> \o sorted
RECURSIVE Sort(_)
Sort(keys) == IF keys = <<>> THEN <<>> ELSE InsertSorted(Head(keys), Sort(Tail(keys)))

\* Array.prototype.join(sep) of an array of strings
RECURSIVE Join(_, _)
Join(pieces, sep) ==
    IF pieces = <<>> THEN <<>>
    ELSE IF Len(pieces) = 1 THEN pieces[1]
    ELSE pieces[1] \o sep \o Join(Tail(pieces), sep)

\* a Record<string, string> is the sequence of its entries in insertion
\* order; Object.keys lists the keys in that order, parameters[key] is the
\* value entered under key
ObjectKeys(parameters) == [k \in 1..Len(parameters) |-> parameters[k].key]
ValueAt(parameters, key) ==
    parameters[CHOOSE k \in 1..Len(parameters) : parameters[k].key = key].value

\* formatQuery with the keys left in insertion order
formatQuery_Unsorted(parameters) ==
    LET sortedKeys == ObjectKeys(parameters) IN
    Join([k \in 1..Len(sortedKeys) |->
             sortedKeys[k] \o <<"=">> \o ValueAt(parameters, sortedKeys[k])], <<"&">>)

\* formatQuery, lines 175-178
formatQuery(parameters) ==
    LET sortedKeys == Sort(ObjectKeys(parameters)) IN
    Join([k \in 1..Len(sortedKeys) |->
             sortedKeys[k] \o <<"=">> \o ValueAt(parameters, sortedKeys[k])], <<"&">>)

\* the keys of the query mappings given to formatQuery: the two the client
\* sends, a prefix of one of them and one in lower case
Action == <<"A","c","t","i","o","n">>
Version == <<"V","e","r","s","i","o","n">>
QueryKeys == {Action, Version, <<"A","c","t">>, <<"a","c","t","i","o","n">>}
\* a value is copied into the output as it is and is kept in one piece
ActionValues == {<<"CVProcess">>, <<"CVSync2AsyncSubmitTask">>}

\* the mappings of at most MaxKeys entries, in every insertion order
ParameterLists ==
    LET KeyOrders ==
            UNION {{o \in [1..n -> QueryKeys] : \A j, k \in 1..n : o[j] = o[k] => j = k} :
                      n \in 0..MaxKeys} IN
    {[k \in 1..Len(o) |-> [key |-> o[k],
                           value |-> IF o[k] = Action THEN v ELSE <<"2022-08-31">>]] :
        o \in KeyOrders, v \in ActionValues}

NoFormatCall == [called |-> FALSE, parameters |-> <<>>, formatted |-> <<>>]

\* ---------------------------------------------------------- signV4Request
\* crypto.createHash('sha256').update(m).digest('hex') and
\* crypto.createHmac('sha256', key).update(m).digest(): a digest stands for
\* the key and the message it was computed from
sha256(m) == <<"sha256", m>>
hmac(key, m) == <<"hmac", key, m>>

\* new Date(): the instant of a signing, its calendar day, its time of day
\* to the second and its milliseconds
Instants ==
    {[day |-> "20261105", time |-> "100000", ms |-> 0],
     [day |-> "20261105", time |-> "100000", ms |-> 500],
     [day |-> "20261106", time |-> "100001", ms |-> 0]}

\* an x-date that keeps only the calendar day
currentDate_DayOnly(t) == <<t.day, "T", "000000", "Z">>

\* t.toISOString().replace(/[:\-]|\.\d{3}/g, ''): YYYYMMDD'T'HHMMSS'Z',
\* the milliseconds are removed
currentDate(t) == <<t.day, "T", t.time, "Z">>

\* getSignatureKey, lines 164-170
getSignatureKey(key, dateStamp, regionName, serviceName) ==
    LET kDate == hmac(key, dateStamp)
        kRegion == hmac(kDate, regionName)
        kService == hmac(kRegion, serviceName)
        kSigning == hmac(kService, "request") IN
    kSigning

\* the signature signV4Request(reqQuery, reqBody, region) computes at
\* instant t on a client with the fields this; a string built by join or
\* by a template is the sequence of its parts
signV4Request(this, t, reqQuery, reqBody, region) ==
    LET date == currentDate(t)
        dateStamp == date[1]    \* currentDate.substring(0, 8)
        used == usedRegion(region, this.region)
        signedHeaders_ == "content-type;host;x-content-sha256;x-date"
        payloadHash == sha256(reqBody)
        canonicalHeaders ==
            <<"content-type:application/json", <<"host:", this.host>>,
              <<"x-content-sha256:", payloadHash>>, <<"x-date:", date>>>>
        canonicalRequest ==
            <<"POST", "/", reqQuery, canonicalHeaders, signedHeaders_, payloadHash>>
        credentialScope == <<dateStamp, used, this.service, "request">>
        stringToSign == <<"HMAC-SHA256", date, credentialScope, sha256(canonicalRequest)>>
        signingKey == getSignatureKey(this.secretKey, dateStamp, used, this.service) IN
    hmac(signingKey, stringToSign)

\* the clients that sign: their secret key and the fields the constructor
\* sets from config.host, config.region and config.service
SignerClients ==
    LET Client(sk, cfg) ==
            [secretKey |-> sk, host |-> constructorSettings(cfg).host,
             region |-> constructorSettings(cfg).region,
             service |-> constructorSettings(cfg).service] IN
    {Client("SK", NoSettings), Client("SK2", NoSettings),
     Client("SK", [NoSettings EXCEPT !.host = "open.volcengineapi.com"]),
     Client("SK", [NoSettings EXCEPT !.service = "cv2"])}

NoSignCall ==
    [called |-> FALSE, this |-> [secretKey |-> "", host |-> "", region |-> "", service |-> ""],
     t |-> [day |-> "", time |-> "", ms |-> 0], reqQuery |-> <<>>, reqBody |-> "",
     region |-> "", signature |-> <<>>]

\* ------------------------------------------------- concurrent operations
\* the callers of ConcurrentSpec
Callers == {1, 2}

\* the provider names every accepted task differently and answers a status
\* request with the outputs of the task named in its body
TaskIdFor(c) == IF c = 1 THEN "T1" ELSE "T2"
OutputOf(tid) == IF tid = "T1" THEN "https://x/a.png" ELSE "https://x/b.png"


\* the locals of one call of a generate operation
NoCall ==
    [pc |-> "idle", op |-> "none", params |-> NoParams, retryCount |-> 0,
     taskResult |-> ApiResponse, i |-> 0, queryRetryCount |-> 0, ret |-> ApiResponse,
     request |-> NoRequest, headers |-> [phase |-> "none", i |-> 0, attempt |-> 0],
     inFlight |-> 0]

\* a request sent without being awaited: the function runs on
awaitResponse_NotAwaited(at) == at

\* const response = await axios.post(...): the function is suspended until
\* the request has ended
awaitResponse(at) == IF at = "submit" THEN "awaitSubmit" ELSE "awaitQuery"

\* a status query that names the task submitted last on the client
statusQueryTaskId_LastSubmitted(cs, c) ==
    IF \E d \in Callers : d # c /\ cs[d].taskResult.task_id # ""
    THEN cs[CHOOSE d \in Callers : d # c /\ cs[d].taskResult.task_id # ""].taskResult.task_id
    ELSE cs[c].taskResult.task_id

\* task_id: taskResult.task_id, taskResult being a const of the call
statusQueryTaskId(cs, c) == cs[c].taskResult.task_id

\* a signer that stores the region it used in this.region
thisAfterSign_StoresRegion(st, region) == [st EXCEPT !.region = usedRegion(region, st.region)]

\* the fields of this after signV4Request(reqQuery, reqBody, region): the
\* signer reads this.region, this.host, this.service and the keys and
\* assigns none of them
thisAfterSign(st, region) == st

\* header sets made once per call, before the retry and polling loops
signedHeaders_MadeOnce(phase, iter, attempt) == [phase |-> "submit", i |-> 0, attempt |-> 0]

\* const { headers, requestUrl } = this.signV4Request(...) stands inside the
\* loops, right before the axios call of each request: a header set is
\* known by where it was made, the phase of the operation, the iteration of
\* its polling loop and the attempt of its retry loop
signedHeaders(phase, iter, attempt) == [phase |-> phase, i |-> iter, attempt |-> attempt]


Init ==
    /\ submission = [called |-> FALSE, viaTool |-> FALSE, args |-> NoSizes, body |-> cleanParams(NoSizes)]
    /\ formatting = [current |-> NoFormatCall, previous |-> NoFormatCall]
    /\ signing = [current |-> NoSignCall, previous |-> NoSignCall]
    /\ calls = [c \in Callers |-> NoCall]
    /\ signal = "none"
    /\ client = constructor(Credentials("AK", "SK"), Credentials("", ""))
    /\ settings = InitSettings
    /\ request = NoRequest
    /\ retries \in {constructorRetries(cfg) : cfg \in CfgRetries}
    /\ op = "none"
    /\ params = NoParams
    /\ pc = "idle"
    /\ retryCount = 0
    /\ taskResult = ApiResponse
    /\ i = 0
    /\ queryRetryCount = 0
    /\ result = ApiResponse
    /\ ret = ApiResponse
    /\ resp = NoResponse
    /\ sleepMs = 0
    /\ submitLog = <<>>
    /\ nQueries = 0
    /\ priorInProgress = TRUE

\* a caller invokes one of the operations in ops
CallOf(ops) ==
    /\ client.state = "constructed"
    /\ UNCHANGED <<submission, formatting, signing, calls, client, settings>>
    /\ signal' = "none"
    /\ request' = NoRequest
    /\ pc \in {"idle", "done", "raised"}
    /\ \E o \in ops : \E prm \in ParamsOf(o) :
          /\ op' = o
          /\ params' = prm
    /\ pc' = "submit"
    /\ retryCount' = 0
    /\ taskResult' = ApiResponse
    /\ i' = 0
    /\ queryRetryCount' = 0
    /\ result' = ApiResponse
    /\ ret' = ApiResponse
    /\ resp' = NoResponse
    /\ sleepMs' = 0
    /\ submitLog' = <<>>
    /\ nQueries' = 0
    /\ priorInProgress' = TRUE
    /\ UNCHANGED retries

Call == CallOf(Operations)

\* generateImage: one pass through its while loop, up to the return or the wait
GenerateImage ==
    /\ UNCHANGED <<submission, formatting, signing, calls, signal, client, settings>>
    /\ request' = IF params.prompt # "" THEN generateImageRequest(params, settings) ELSE request
    /\ pc = "submit"
    /\ op = "generateImage"
    /\ \E rsp \in IF params.prompt # "" THEN GenerateImageResponses ELSE {resp} :
       LET attempt == generateImageAttempt(params, rsp) IN
       /\ resp' = rsp
       /\ submitLog' = IF params.prompt # "" THEN Append(submitLog, roundTrip(rsp)) ELSE submitLog
       /\ retryCount' = IF attempt.thrown THEN retryCountAfterCatch(retryCount) ELSE retryCount
       /\ IF ~attempt.thrown
          THEN /\ ret' = attempt.value
               /\ pc' = "done"
               /\ sleepMs' = 0
          ELSE IF retryCountAfterCatch(retryCount) > retries
          THEN /\ ret' = Failure(attempt.error)
               /\ pc' = "done"
               /\ sleepMs' = 0
          ELSE /\ ret' = ret
               /\ pc' = "backoff"
               /\ sleepMs' = generateImageWaitTime(retryCount + 1)
    /\ UNCHANGED <<retries, op, params, taskResult, i, queryRetryCount, result,
                   nQueries, priorInProgress>>

\* the backoff wait of generateImage ends
BackoffEnd ==
    /\ UNCHANGED <<submission, formatting, signing, calls, signal, client, settings, request>>
    /\ pc = "backoff"
    /\ pc' = "submit"
    /\ sleepMs' = 0
    /\ resp' = NoResponse
    /\ UNCHANGED <<retries, op, params, retryCount, taskResult, i, queryRetryCount, result,
                   ret, submitLog, nQueries, priorInProgress>>

\* the code of a generate operation from the return of its submit call to
\* the first status query or to the early return
AfterSubmit(tr) ==
    /\ taskResult' = tr
    /\ retryCount' = 0
    /\ sleepMs' = 0
    /\ IF submissionRejected(tr)
       THEN /\ ret' = submissionFailure(tr)
            /\ pc' = "done"
       ELSE /\ ret' = ret
            /\ pc' = "query"
    /\ UNCHANGED <<retries, op, params, i, queryRetryCount, result, nQueries, priorInProgress>>

\* submitJimengV40Task / submitJimengI2IV30Task / submitJimengT2IV31Task /
\* submitJimengT2IV30Task: one call of submitAsyncTask, no retry
SubmitAsyncTask ==
    /\ UNCHANGED <<submission, formatting, signing, calls, signal, client, settings>>
    /\ request' = IF op = "generateJimengV40Image" /\ AreaRejected(params)
                  THEN request ELSE submitAsyncTaskRequest(settings)
    /\ pc = "submit"
    /\ op \in ImageOps
    /\ IF op = "generateJimengV40Image" /\ AreaRejected(params)
       THEN /\ AfterSubmit(Failure(Err("area_out_of_range", "", params.width * params.height)))
            /\ UNCHANGED <<resp, submitLog>>
       ELSE \E rsp \in SubmitResponses :
            /\ resp' = rsp
            /\ submitLog' = Append(submitLog, roundTrip(rsp))
            /\ LET outcome == submitAsyncTask(rsp) IN
               IF outcome.thrown
               THEN /\ pc' = "raised"
                    /\ UNCHANGED <<retries, op, params, retryCount, taskResult, i,
                                   queryRetryCount, result, ret, sleepMs, nQueries,
                                   priorInProgress>>
               ELSE AfterSubmit(outcome.value)

\* a thrown attempt that is followed by the fixed 60 s wait
SubmitCooldown ==
    /\ pc' = "submitCooldown"
    /\ sleepMs' = submitWaitTime(retryCount + 1)
    /\ UNCHANGED <<retries, op, params, taskResult, i, queryRetryCount, result, ret,
                   nQueries, priorInProgress>>

\* submitVideoTask: one pass through its while loop, up to the return or the wait
SubmitVideoTask ==
    /\ UNCHANGED <<submission, formatting, signing, calls, signal, client, settings>>
    /\ request' = IF params.prompt # "" THEN submitVideoTaskRequest(params, settings) ELSE request
    /\ pc = "submit"
    /\ op = "generateVideo"
    /\ \E rsp \in IF params.prompt # "" THEN SubmitResponses ELSE {resp} :
       LET attempt == submitVideoAttempt(params, rsp) IN
       /\ resp' = rsp
       /\ submitLog' = IF params.prompt # "" THEN Append(submitLog, roundTrip(rsp)) ELSE submitLog
       /\ IF ~attempt.thrown THEN AfterSubmit(attempt.value)
          ELSE IF retryCount + 1 > videoRetries THEN AfterSubmit(submitVideoGiveUp(attempt.error))
          ELSE /\ retryCount' = retryCount + 1
               /\ SubmitCooldown

\* submitI2VTask: one pass through its while loop, up to the return or the wait
\* (retryCount++ follows the wait in the source; nothing reads it in between)
SubmitI2VTask ==
    /\ UNCHANGED <<submission, formatting, signing, calls, signal, client, settings>>
    /\ request' = IF params.image_url # "" THEN submitI2VTaskRequest(params, settings) ELSE request
    /\ pc = "submit"
    /\ op = "generateI2VVideo"
    /\ \E rsp \in IF params.image_url # "" THEN SubmitResponses ELSE {resp} :
       LET attempt == submitI2VAttempt(params, rsp) IN
       /\ resp' = rsp
       /\ submitLog' = IF params.image_url # "" THEN Append(submitLog, roundTrip(rsp)) ELSE submitLog
       /\ IF ~attempt.thrown THEN AfterSubmit(attempt.value)
          ELSE IF IsImageFormatError(attempt.error)
          THEN AfterSubmit(Failure(Err("image_format", attempt.error.msg, attempt.error.code)))
          ELSE IF retryCount < videoRetries
          THEN /\ retryCount' = retryCount + 1
               /\ SubmitCooldown
          ELSE AfterSubmit(Failure(attempt.error))

\* the 60 s wait of submitVideoTask / submitI2VTask ends
SubmitCooldownEnd ==
    /\ UNCHANGED <<submission, formatting, signing, calls, signal, client, settings, request>>
    /\ pc = "submitCooldown"
    /\ pc' = "submit"
    /\ sleepMs' = 0
    /\ resp' = NoResponse
    /\ UNCHANGED <<retries, op, params, retryCount, taskResult, i, queryRetryCount, result,
                   ret, submitLog, nQueries, priorInProgress>>

\* the body of the for loop once the status query has returned r
AfterQuery(r) ==
    LET body == loopBody(op, r, taskResult.task_id) IN
    /\ result' = r
    /\ queryRetryCount' = 0
    /\ IF body.returns
       THEN /\ ret' = body.value
            /\ pc' = "done"
            /\ sleepMs' = 0
       ELSE /\ ret' = ret
            /\ pc' = "pollSleep"
            /\ sleepMs' = pollingInterval
    /\ UNCHANGED <<retries, op, params, retryCount, taskResult, i, submitLog, priorInProgress>>

\* one iteration of an image operation's for loop: queryAsyncTask, then the body
QueryAsyncTask ==
    /\ UNCHANGED <<submission, formatting, signing, calls, signal, client, settings>>
    /\ request' = queryAsyncTaskRequest(settings, taskResult.task_id)
    /\ pc = "query"
    /\ op \in ImageOps
    /\ \E rsp \in QueryResponses :
       /\ resp' = rsp
       /\ nQueries' = nQueries + 1
       /\ LET outcome == queryAsyncTask(rsp) IN
          IF outcome.thrown
          THEN /\ pc' = "raised"
               /\ UNCHANGED <<retries, op, params, retryCount, taskResult, i,
                              queryRetryCount, result, ret, sleepMs, submitLog,
                              priorInProgress>>
          ELSE AfterQuery(outcome.value)

\* one pass through the while loop of getVideoTaskResult, called by the for
\* loop of generateVideo / generateI2VVideo, up to the wait or through the body
GetVideoTaskResult ==
    /\ UNCHANGED <<submission, formatting, signing, calls, signal, client, settings>>
    /\ request' = getVideoTaskResultRequest(videoReqKey(op, params), settings, taskResult.task_id)
    /\ pc = "query"
    /\ op \in VideoOps
    /\ \E rsp \in QueryResponses :
       LET attempt == getVideoTaskResultAttempt(rsp) IN
       /\ resp' = rsp
       /\ nQueries' = IF queryRetryCount = 0 THEN nQueries + 1 ELSE nQueries
       /\ IF ~attempt.thrown THEN AfterQuery(attempt.value)
          ELSE IF queryRetryCount + 1 > videoRetries THEN AfterQuery(Failure(attempt.error))
          ELSE /\ queryRetryCount' = queryRetryCount + 1
               /\ pc' = "queryCooldown"
               /\ sleepMs' = 5000
               /\ UNCHANGED <<retries, op, params, retryCount, taskResult, i, result, ret,
                              submitLog, priorInProgress>>

\* the 5 s wait of getVideoTaskResult ends
QueryCooldownEnd ==
    /\ UNCHANGED <<submission, formatting, signing, calls, signal, client, settings, request>>
    /\ pc = "queryCooldown"
    /\ pc' = "query"
    /\ sleepMs' = 0
    /\ resp' = NoResponse
    /\ UNCHANGED <<retries, op, params, retryCount, taskResult, i, queryRetryCount, result,
                   ret, submitLog, nQueries, priorInProgress>>

\* the sleep between two polls ends: i++, the loop test, and the return
\* after the loop when the test fails (result and response are constants of
\* the loop body: they do not outlive the iteration)
PollSleepEnd ==
    /\ UNCHANGED <<submission, formatting, signing, calls, signal, client, settings, request>>
    /\ pc = "pollSleep"
    /\ i' = i + 1
    /\ sleepMs' = 0
    /\ priorInProgress' = (priorInProgress /\ result.success
                              /\ result.status \in {PENDING, RUNNING})
    /\ IF i + 1 < maxAttempts(op)
       THEN /\ pc' = "query"
            /\ ret' = ret
       ELSE /\ pc' = "done"
            /\ ret' = pollTimeout(taskResult.task_id)
    /\ result' = ApiResponse
    /\ resp' = NoResponse
    /\ UNCHANGED <<retries, op, params, retryCount, taskResult, queryRetryCount,
                   submitLog, nQueries>>

Next ==
    \/ Call
    \/ GenerateImage
    \/ BackoffEnd
    \/ SubmitAsyncTask
    \/ SubmitVideoTask
    \/ SubmitI2VTask
    \/ SubmitCooldownEnd
    \/ QueryAsyncTask
    \/ GetVideoTaskResult
    \/ QueryCooldownEnd
    \/ PollSleepEnd

Spec == Init /\ [][Next]_vars

\* the client of Init built without config.retries
SignerInit == Init /\ retries = constructorRetries(0)

\* the responses that can keep a loop going or end it, one of each kind:
\* no response, an accepted submission, a task in progress, an unlisted
\* status, a finished task without and with outputs
TerminationResponses ==
    {NoResponse, NetErr, Accepted("T1"), TaskStatus(in_queue, <<>>, ""),
     TaskStatus(weird_state, <<>>, ""), TaskStatus(done, <<>>, ""),
     TaskStatus(done, <<"https://x/a.png">>, ""), Generated(<<"https://x/a.png">>)}

\* Spec on the client built without config.retries, its responses drawn
\* from TerminationResponses, with the assumption that every HTTP request
\* eventually completes or fails (axios resolves or rejects the awaited
\* promise) and every setTimeout eventually fires: the step an operation in
\* progress waits for is eventually taken
TerminationSpec ==
    /\ SignerInit
    /\ [][Next /\ resp' \in TerminationResponses]_vars
    /\ WF_vars(Next /\ resp' \in TerminationResponses /\ pc \notin {"idle", "done", "raised"})

\* generateImage alone, on clients constructed with config.retries in
\* 0..MaxCfgRetries
GenerateImageInit ==
    /\ submission = [called |-> FALSE, viaTool |-> FALSE, args |-> NoSizes, body |-> cleanParams(NoSizes)]
    /\ formatting = [current |-> NoFormatCall, previous |-> NoFormatCall]
    /\ signing = [current |-> NoSignCall, previous |-> NoSignCall]
    /\ calls = [c \in Callers |-> NoCall]
    /\ signal = "none"
    /\ client = constructor(Credentials("AK", "SK"), Credentials("", ""))
    /\ settings = InitSettings
    /\ request = NoRequest
    /\ retries \in {constructorRetries(cfg) : cfg \in 0..MaxCfgRetries}
    /\ op = "none"
    /\ params = NoParams
    /\ pc = "idle"
    /\ retryCount = 0
    /\ taskResult = ApiResponse
    /\ i = 0
    /\ queryRetryCount = 0
    /\ result = ApiResponse
    /\ ret = ApiResponse
    /\ resp = NoResponse
    /\ sleepMs = 0
    /\ submitLog = <<>>
    /\ nQueries = 0
    /\ priorInProgress = TRUE

CallGenerateImage == CallOf({"generateImage"})

GenerateImageNext ==
    \/ CallGenerateImage
    \/ GenerateImage
    \/ BackoffEnd

GenerateImageSpec == GenerateImageInit /\ [][GenerateImageNext]_vars

\* the program from before the construction of its client: new
\* JimengClient(config) under some environment, then generateImage calls
ConstructorInit ==
    /\ submission = [called |-> FALSE, viaTool |-> FALSE, args |-> NoSizes, body |-> cleanParams(NoSizes)]
    /\ formatting = [current |-> NoFormatCall, previous |-> NoFormatCall]
    /\ signing = [current |-> NoSignCall, previous |-> NoSignCall]
    /\ calls = [c \in Callers |-> NoCall]
    /\ signal = "none"
    /\ client = NoClient
    /\ settings = constructorSettings(NoSettings)
    /\ request = NoRequest
    /\ retries = 0
    /\ op = "none"
    /\ params = NoParams
    /\ pc = "idle"
    /\ retryCount = 0
    /\ taskResult = ApiResponse
    /\ i = 0
    /\ queryRetryCount = 0
    /\ result = ApiResponse
    /\ ret = ApiResponse
    /\ resp = NoResponse
    /\ sleepMs = 0
    /\ submitLog = <<>>
    /\ nQueries = 0
    /\ priorInProgress = TRUE

\* new JimengClient(config): the object exists only if the constructor
\* does not throw; a new client has made no call yet
Construct ==
    /\ pc \in {"idle", "done"}
    /\ \E config \in ConfigCredentials, env \in EnvCredentials, cfg \in CfgRetries :
          /\ client' = constructor(config, env)
          /\ signal' = "none"
          /\ UNCHANGED <<submission, formatting, signing, calls>>
          /\ settings' = constructorSettings(NoSettings)
          /\ request' = NoRequest
          /\ retries' = IF constructor(config, env).state = "constructed"
                        THEN constructorRetries(cfg) ELSE 0
    /\ op' = "none"
    /\ params' = NoParams
    /\ pc' = "idle"
    /\ retryCount' = 0
    /\ taskResult' = ApiResponse
    /\ i' = 0
    /\ queryRetryCount' = 0
    /\ result' = ApiResponse
    /\ ret' = ApiResponse
    /\ resp' = NoResponse
    /\ sleepMs' = 0
    /\ submitLog' = <<>>
    /\ nQueries' = 0
    /\ priorInProgress' = TRUE

\* the caller raises its cancellation signal, or its deadline passes, while
\* the operation is in a sleep of its polling loop; the operations take no
\* signal and test none, so nothing but the caller's own state changes
Cancel ==
    /\ op \in GenerateOps
    /\ pc \in {"pollSleep", "queryCooldown"}
    /\ signal = "none"
    /\ signal' = "raised"
    /\ UNCHANGED <<submission, formatting, signing, calls, client, settings, request, retries, op, params, pc, retryCount,
                   taskResult, i, queryRetryCount, result, ret, resp, sleepMs, submitLog,
                   nQueries, priorInProgress>>

CallCancellable == CallOf({"generateJimengV40Image", "generateVideo"})

CancellationNext ==
    \/ CallCancellable
    \/ SubmitAsyncTask
    \/ SubmitVideoTask
    \/ SubmitCooldownEnd
    \/ QueryAsyncTask
    \/ GetVideoTaskResult
    \/ QueryCooldownEnd
    \/ PollSleepEnd
    \/ Cancel

\* two generate operations whose caller may cancel them
CancellationSpec == Init /\ [][CancellationNext]_vars

\* ------------------------------------------------------------------------
\* Concurrent generate operations on one client.  Here a round trip is two
\* steps, the sending of the request and its end, so that the steps of the
\* other call can fall in between.
SetCall(c, rec) ==
    /\ calls' = [calls EXCEPT ![c] = rec]
    /\ UNCHANGED <<formatting, signing, client, sequentialVars>>

\* a caller invokes its generate operation: the first an image generation,
\* the second a video generation with a region of its own
StartCall(c) ==
    /\ client.state = "constructed"
    /\ calls[c].pc = "idle"
    /\ SetCall(c, IF c = 1
                  THEN [NoCall EXCEPT !.pc = "submit", !.op = "generateJimengV40Image",
                                      !.params = [NoParams EXCEPT !.prompt = "a cat"]]
                  ELSE [NoCall EXCEPT !.pc = "submit", !.op = "generateVideo",
                                      !.params = [NoParams EXCEPT !.prompt = "a dog",
                                                                  !.region = "cn-south-1"]])
    /\ UNCHANGED settings

\* submitAsyncTask / submitVideoTask: the request is signed and sent
SendSubmission(c) ==
    LET call == calls[c] IN
    /\ call.pc = "submit"
    /\ SetCall(c, [call EXCEPT
            !.pc = awaitResponse("submit"),
            !.headers = signedHeaders("submit", 0, call.retryCount),
            !.request = IF call.op \in ImageOps THEN submitAsyncTaskRequest(settings)
                        ELSE submitVideoTaskRequest(call.params, settings),
            !.inFlight = call.inFlight + 1])
    /\ settings' = thisAfterSign(settings, IF call.op \in ImageOps THEN "" ELSE call.params.region)

\* the code that follows the return of the submit call in the generate operation
AfterSubmission(call, tr) ==
    IF submissionRejected(tr)
    THEN [call EXCEPT !.taskResult = tr, !.retryCount = 0, !.pc = "done",
                      !.ret = submissionFailure(tr)]
    ELSE [call EXCEPT !.taskResult = tr, !.retryCount = 0, !.pc = "query"]

\* the submission request ends: the rest of submitAsyncTask, or of the pass
\* through the loop of submitVideoTask
SubmissionEnds(c) ==
    LET call == [calls[c] EXCEPT !.inFlight = calls[c].inFlight - 1] IN
    /\ calls[c].pc = "awaitSubmit"
    /\ \E rsp \in {NetErr, Accepted(TaskIdFor(c))} :
       IF call.op \in ImageOps
       THEN LET outcome == submitAsyncTask(rsp) IN
            SetCall(c, IF outcome.thrown THEN [call EXCEPT !.pc = "raised"]
                       ELSE AfterSubmission(call, outcome.value))
       ELSE LET attempt == submitVideoAttempt(call.params, rsp) IN
            SetCall(c, IF ~attempt.thrown THEN AfterSubmission(call, attempt.value)
                       ELSE IF call.retryCount + 1 > videoRetries
                       THEN AfterSubmission(call, submitVideoGiveUp(attempt.error))
                       ELSE [call EXCEPT !.retryCount = call.retryCount + 1,
                                         !.pc = "submitCooldown"])
    /\ UNCHANGED settings

\* the 60 s wait of submitVideoTask ends
SubmissionWaitEnds(c) ==
    /\ calls[c].pc = "submitCooldown"
    /\ SetCall(c, [calls[c] EXCEPT !.pc = "submit"])
    /\ UNCHANGED settings

\* queryAsyncTask / getVideoTaskResult: the status request is signed and sent
SendStatusQuery(c) ==
    LET call == calls[c]
        tid == statusQueryTaskId(calls, c) IN
    /\ call.pc = "query"
    /\ SetCall(c, [call EXCEPT
            !.pc = awaitResponse("query"),
            !.headers = signedHeaders("query", call.i, call.queryRetryCount),
            !.request = IF call.op \in ImageOps THEN queryAsyncTaskRequest(settings, tid)
                        ELSE getVideoTaskResultRequest(videoReqKey(call.op, call.params),
                                                       settings, tid),
            !.inFlight = call.inFlight + 1])
    /\ settings' = thisAfterSign(settings,
                                 IF call.op \in ImageOps THEN ""
                                 ELSE reqKeyRegion(videoReqKey(call.op, call.params)))

\* the body of the for loop once the status query has returned r
AfterStatusQuery(call, r) ==
    LET body == loopBody(call.op, r, call.taskResult.task_id) IN
    IF body.returns
    THEN [call EXCEPT !.queryRetryCount = 0, !.pc = "done", !.ret = body.value]
    ELSE [call EXCEPT !.queryRetryCount = 0, !.pc = "pollSleep"]

\* the status request ends: the rest of queryAsyncTask, or of the pass
\* through the loop of getVideoTaskResult, then the body of the for loop
StatusQueryEnds(c) ==
    LET call == [calls[c] EXCEPT !.inFlight = calls[c].inFlight - 1] IN
    /\ calls[c].pc = "awaitQuery"
    /\ \E rsp \in {NetErr, TaskStatus(in_queue, <<>>, ""), TaskStatus(fail, <<>>, ""),
                    TaskStatus(done, <<OutputOf(call.request.task_id)>>, "")} :
       IF call.op \in ImageOps
       THEN LET outcome == queryAsyncTask(rsp) IN
            SetCall(c, IF outcome.thrown THEN [call EXCEPT !.pc = "raised"]
                       ELSE AfterStatusQuery(call, outcome.value))
       ELSE LET attempt == getVideoTaskResultAttempt(rsp) IN
            SetCall(c, IF ~attempt.thrown THEN AfterStatusQuery(call, attempt.value)
                       ELSE IF call.queryRetryCount + 1 > videoRetries
                       THEN AfterStatusQuery(call, Failure(attempt.error))
                       ELSE [call EXCEPT !.queryRetryCount = call.queryRetryCount + 1,
                                         !.pc = "queryCooldown"])
    /\ UNCHANGED settings

\* the 5 s wait of getVideoTaskResult ends
StatusWaitEnds(c) ==
    /\ calls[c].pc = "queryCooldown"
    /\ SetCall(c, [calls[c] EXCEPT !.pc = "query"])
    /\ UNCHANGED settings

\* the sleep between two polls ends: i++, the loop test, and the return
\* after the loop when the test fails
SleepEnds(c) ==
    LET call == calls[c] IN
    /\ call.pc = "pollSleep"
    /\ SetCall(c, IF call.i + 1 < maxAttempts(call.op)
                  THEN [call EXCEPT !.i = call.i + 1, !.pc = "query"]
                  ELSE [call EXCEPT !.i = call.i + 1, !.pc = "done",
                                    !.ret = pollTimeout(call.taskResult.task_id)])
    /\ UNCHANGED settings

ConcurrentNext ==
    \E c \in Callers :
        \/ StartCall(c)
        \/ SendSubmission(c)
        \/ SubmissionEnds(c)
        \/ SubmissionWaitEnds(c)
        \/ SendStatusQuery(c)
        \/ StatusQueryEnds(c)
        \/ StatusWaitEnds(c)
        \/ SleepEnds(c)

ConcurrentSpec == Init /\ [][ConcurrentNext]_vars

\* ------------------------------------------------------------------------
\* The signer on its own: formatQuery and signV4Request applied to inputs
\* of every kind, the call before being kept for comparison.
FormatQuery ==
    /\ \E parameters \in ParameterLists :
          formatting' = [previous |-> formatting.current,
                         current |-> [called |-> TRUE, parameters |-> parameters,
                                      formatted |-> formatQuery(parameters)]]
    /\ UNCHANGED <<signing, calls, client, settings, sequentialVars>>

FormatQuerySpec == SignerInit /\ [][FormatQuery]_vars

SignV4Request ==
    /\ \E this \in SignerClients, t \in Instants,
          \* formattedQuery = this.formatQuery(queryParams)
          reqQuery \in {formatQuery(<<[key |-> Version, value |-> <<"2022-08-31">>],
                                      [key |-> Action, value |-> v]>>) : v \in ActionValues},
          \* formattedBody = JSON.stringify(bodyParams)
          reqBody \in {"{\"req_key\":\"jimeng_t2i_v40\"}",
                       "{\"req_key\":\"jimeng_vgfm_t2v_l20\"}"},
          \* the region argument, "" when it is not given
          region \in {"", "cn-south-1"} :
          signing' = [previous |-> signing.current,
                      current |-> [called |-> TRUE, this |-> this, t |-> t,
                                   reqQuery |-> reqQuery, reqBody |-> reqBody,
                                   region |-> region,
                                   signature |-> signV4Request(this, t, reqQuery, reqBody,
                                                               region)]]
    /\ UNCHANGED <<formatting, calls, client, settings, sequentialVars>>

SignerSpec == SignerInit /\ [][SignV4Request]_vars

\* submitJimengV40Task on its own, called directly or through the
\* jimeng-v40-generate tool, with side lengths and sizes on both sides of
\* every limit the code tests
SubmitJimengV40Task ==
    /\ \E viaTool \in BOOLEAN, w \in {0, 512, 2048, 8192}, h \in {0, 512, 2048, 8192},
          sz \in {0, -5, 500, 1024, 4096, 4097, 1048575, 1048576, 4194304, 16777216,
                  16777217} :
          LET args == [width |-> w, height |-> h, size |-> sz] IN
          submission' = [called |-> TRUE, viaTool |-> viaTool, args |-> args,
                         body |-> cleanParams(IF viaTool THEN processedArgs(args) ELSE args)]
    /\ UNCHANGED <<formatting, signing, calls, client, settings, signal, request, retries, op,
                   params, pc, retryCount, taskResult, i, queryRetryCount, result, ret, resp,
                   sleepMs, submitLog, nQueries, priorInProgress>>

SubmitJimengV40Spec == SignerInit /\ [][SubmitJimengV40Task]_vars

ConstructorNext ==
    \/ Construct
    \/ CallGenerateImage
    \/ GenerateImage
    \/ BackoffEnd

ConstructorSpec == ConstructorInit /\ [][ConstructorNext]_vars

\* ================================================================= claims
\* the output URL list of an ApiResponse of operation o
outputUrls(o, r) == IF o \in ImageOps THEN r.image_urls ELSE r.video_urls
\* the URL list a status query result reports to the polling loop
reportedUrls(o, r) == IF o \in ImageOps THEN r.data.image_urls ELSE r.video_urls
\* the latest HTTP response answered a status query with an application code
StatusResponseWithCode ==
    nQueries > 0 /\ pc # "query" /\ resp.net = "ok" /\ resp.http = 200

\* C1 (as claimed): when the response of a status query carries a
\* moderation-class application code (50411, 50511, 50412, 50512, 50413) the
\* generate operation has returned a failure on that very query: it is not
\* sleeping towards, or retrying, another status query.
C1_ModerationEndsPolling ==
    (StatusResponseWithCode /\ resp.code \in {50411, 50511, 50412, 50512, 50413})
        => (pc = "done" /\ ~ret.success)

\* C2 (as claimed): when a status query reports SUCCEEDED with an empty URL
\* list, the generate operation has ended on that observation with a failure
\* carrying an error; it neither returned success nor keeps polling.
C2_EmptySuccessFails ==
    (nQueries > 0 /\ result.success /\ result.status = SUCCEEDED
        /\ reportedUrls(op, result) = <<>>)
        => (pc = "done" /\ ~ret.success /\ ret.error # NoError)

\* C3: a generate operation never starts more status queries than its cap
\* (60 image, 100 video), and when it has ended after an accepted submission
\* without its latest status query having yielded a terminal outcome, it has
\* made exactly cap queries and returned the poll-timeout failure carrying
\* the task id of the submission.
C3_PollTimeoutCarriesTaskId ==
    LET cap == IF op \in ImageOps THEN 60 ELSE 100
        terminal == result.success
                       /\ \/ result.status = FAILED
                          \/ result.status = SUCCEEDED /\ reportedUrls(op, result) # <<>>
    IN /\ nQueries <= cap
       /\ (pc = "done" /\ nQueries > 0 /\ ~terminal)
             => /\ ~ret.success
                /\ ret.error.kind = "poll_timeout"
                /\ ret.task_id \in TaskIds
                /\ ret.task_id = taskResult.task_id
                /\ outputUrls(op, ret) = <<>>
                /\ nQueries = cap
                /\ i = cap

C3_Witness ==
    /\ pc = "done" /\ op = "generateVideo" /\ nQueries = 100
    /\ ret.error.kind = "poll_timeout" /\ ret.task_id = "T1"

\* C4: a status query is started only after a submission that returned
\* success with a task id; when the submission did not, the operation has
\* returned the submission's error with zero status queries.
C4_NoPollWithoutHandle ==
    /\ (nQueries > 0 \/ pc \in {"query", "queryCooldown", "pollSleep"})
          => (taskResult.success /\ taskResult.task_id \in TaskIds)
    /\ (pc = "done" /\ op \in GenerateOps /\ (~taskResult.success \/ taskResult.task_id = ""))
          => /\ nQueries = 0
             /\ ~ret.success
             /\ ret.error = taskResult.error
             /\ ret.error # NoError
             /\ ret.task_id = ""

C4_Witness ==
    /\ pc = "done" /\ op \in GenerateOps /\ ~taskResult.success /\ Len(submitLog) > 0
    /\ nQueries = 0 /\ ~ret.success /\ ret.error.kind = "network"

\* C5: every step by which a generate operation returns is one of: the early
\* return of a failed submission; a success on a status query that reported
\* SUCCEEDED; a failure on a status query that reported FAILED; the
\* poll-timeout failure when the attempt cap is reached.  In particular no
\* return happens on a query that reported PENDING or RUNNING while attempts
\* remain.
C5_ReturnsOnlyTerminal ==
    [][(pc # "done" /\ pc' = "done" /\ op \in GenerateOps)
         => \/ /\ pc = "submit"
               /\ ~taskResult'.success \/ taskResult'.task_id = ""
               /\ ~ret'.success
            \/ /\ pc = "query"
               /\ result'.success /\ result'.status = SUCCEEDED
               /\ ret'.success
            \/ /\ pc = "query"
               /\ result'.success /\ result'.status = FAILED
               /\ ~ret'.success
            \/ /\ pc = "pollSleep"
               /\ i' = (IF op \in ImageOps THEN 60 ELSE 100)
               /\ ~ret'.success /\ ret'.error.kind = "poll_timeout"]_vars

C5_Witness ==
    /\ pc = "done" /\ op \in ImageOps /\ i = 60 /\ ret.error.kind = "poll_timeout"
    /\ priorInProgress

\* the latest HTTP response was a well-formed answer to a status query, and
\* result is what the status-query operation made of it
StatusReported ==
    /\ nQueries > 0 /\ pc \in {"pollSleep", "done"}
    /\ resp.net = "ok" /\ resp.http = 200 /\ resp.code = 10000
    /\ resp.hasData /\ resp.st # UNDEFINED
IN_QUEUE == <<"I","N","_","Q","U","E","U","E">>
PROCESSING == <<"P","R","O","C","E","S","S","I","N","G">>
WEIRD_STATE == <<"W","E","I","R","D","_","S","T","A","T","E">>

C7_SameTableInBothQueries ==
    (StatusReported /\ resp.st \in {in_queue, generating, processing, done, fail, failed})
        => /\ result.success
           /\ result.status = (CASE resp.st = in_queue -> PENDING
                                 [] resp.st \in {processing, generating} -> RUNNING
                                 [] resp.st = done -> SUCCEEDED
                                 [] resp.st \in {fail, failed} -> FAILED)

\* C8 (as claimed): an upper/lower-case variant of a table entry (DONE,
\* In_Queue, Processing) is normalised to the canonical state of the
\* lower-case entry.
C8_CaseInsensitive ==
    (StatusReported /\ resp.st \notin {in_queue, generating, processing, done, fail, failed}
        /\ ToLowerCase(resp.st) \in {in_queue, generating, processing, done, fail, failed})
        => /\ result.success
           /\ result.status = (CASE ToLowerCase(resp.st) = in_queue -> PENDING
                                 [] ToLowerCase(resp.st) \in {processing, generating} -> RUNNING
                                 [] ToLowerCase(resp.st) = done -> SUCCEEDED
                                 [] ToLowerCase(resp.st) \in {fail, failed} -> FAILED)

\* C9: when every earlier status query of the operation reported PENDING or
\* RUNNING and the latest one reports SUCCEEDED with a non-empty URL list,
\* the operation has returned success with exactly that list, in that order,
\* and the submission's task id, and has made as many status queries as
\* reports it received (k - 1 in progress, then this one).
C9_SuccessOnKthQuery ==
    (nQueries > 0 /\ priorInProgress /\ result.success /\ result.status = SUCCEEDED
        /\ reportedUrls(op, result) # <<>>)
        => /\ pc = "done"
           /\ ret.success
           /\ outputUrls(op, ret) = reportedUrls(op, result)
           /\ op \in ImageOps => ret.image_urls = resp.urls
           /\ ret.error = NoError
           /\ ret.task_id = taskResult.task_id
           /\ nQueries = i + 1

C9_Witness ==
    /\ pc = "done" /\ ret.success /\ priorInProgress /\ nQueries = 3 /\ i = 2
    /\ op = "generateVideo" /\ ret.task_id = "T1"
    /\ ret.video_urls = <<"https://x/b.png", "https://x/a.png">>

\* C10 (as claimed): with a configured retry count of at least 2, a generate
\* operation does not give up on a submission whose one or two requests so
\* far all failed at transport level: it makes the third attempt, so that a
\* success there leads to polling and the failures stay unreported.
C10_SubmissionRetriedTwice ==
    ~(/\ pc = "done" /\ retries >= 2 /\ nQueries = 0
      /\ Len(submitLog) \in {1, 2}
      /\ \A k \in 1..Len(submitLog) : submitLog[k] = "transport")

\* C11: generateImage sends at most retries + 1 requests, and the wait that
\* precedes its k-th retry (k = retryCount, 1..retries) is 1000, 2000, 4000,
\* 8000 ms for k = 1..4 and 10000 ms from k = 5 on: min(1000 * 2^(k-1),
\* 10000), never above 10 seconds.
C11_BackoffDoublesCappedAt10s ==
    op = "generateImage"
        => /\ Len(submitLog) <= retries + 1
           /\ retryCount <= retries + 1
           /\ pc = "backoff"
                => /\ retryCount \in 1..retries
                   /\ Len(submitLog) <= retryCount
                   /\ sleepMs = (CASE retryCount = 1 -> 1000
                                   [] retryCount = 2 -> 2000
                                   [] retryCount = 3 -> 4000
                                   [] retryCount = 4 -> 8000
                                   [] OTHER -> 10000)
                   /\ sleepMs <= 10000

C11_Witness ==
    /\ op = "generateImage" /\ pc = "backoff" /\ retries = 5 /\ retryCount = 5
    /\ Len(submitLog) = 5 /\ sleepMs = 10000

\* C12: submitVideoTask and submitI2VTask wait the same fixed 60000 ms between
\* two submission attempts (no exponential growth), wait at most once, and
\* send at most 2 requests per operation.
C12_VideoSubmitFixedWait ==
    op \in VideoOps
        => /\ Len(submitLog) <= 2
           /\ retryCount <= 1
           /\ pc = "submitCooldown"
                => /\ sleepMs = 60000
                   /\ retryCount = 1
                   /\ Len(submitLog) <= 1

C12_Witness ==
    /\ op \in VideoOps /\ pc = "submitCooldown" /\ sleepMs = 60000
    /\ retryCount = 1 /\ Len(submitLog) = 1

\* the step in which a submit operation returns: generateImage returns ret,
\* the submit call of a generate operation returns taskResult
SubmitReturns == pc = "submit" /\ pc' \in {"query", "done"}
SubmitResult(o, r, tr) == IF o = "generateImage" THEN r ELSE tr
\* an attempt that did not obtain what the operation asks for: rejected
\* before any request, no response, a status other than 200, or a body
\* without a task id (without image URLs for generateImage)
AttemptFailed(o, rsp) ==
    \/ rsp.net # "ok"
    \/ rsp.http # 200
    \/ ~rsp.hasData
    \/ IF o = "generateImage" THEN rsp.urls = <<>> ELSE rsp.task_id = ""

\* C13: when the last attempt of a submit operation (generateImage,
\* submitAsyncTask, submitVideoTask, submitI2VTask) has failed, the returned
\* result has success = false, an error, no task id and no output URLs; and
\* no returned failure carries a task id or URLs.
C13_FailedSubmitHasNoHandle ==
    [][SubmitReturns
         => LET res == SubmitResult(op, ret', taskResult') IN
            /\ AttemptFailed(op, resp') => ~res.success
            /\ ~res.success
                 => /\ res.task_id = ""
                    /\ res.image_urls = <<>>
                    /\ res.video_urls = <<>>
                    /\ res.error # NoError]_vars

C13_Witness ==
    /\ op = "generateVideo" /\ pc = "done" /\ Len(submitLog) = 2
    /\ resp.http = 500 /\ resp.task_id = "T1"
    /\ ~taskResult.success /\ taskResult.task_id = ""

\* C14 (as claimed): a submit operation (submitAsyncTask, submitVideoTask,
\* submitI2VTask) returns success with a task id only if the response had
\* HTTP status 200 and the application-level success code 10000 (read here
\* from data.code or, where data.code is absent, from data.status).
C14_TaskIdOnlyWithSuccessCode ==
    [][(SubmitReturns /\ op \in GenerateOps
          /\ taskResult'.success /\ taskResult'.task_id # "")
         => /\ resp'.net = "ok"
            /\ resp'.http = 200
            /\ \/ resp'.code = 10000
               \/ resp'.code = 0 /\ resp'.topStatus = 10000]_vars

\* a response with HTTP status 200 whose data.code is an error code
ApplicationError(rsp) == rsp.net = "ok" /\ rsp.http = 200 /\ rsp.code \notin {0, 10000}
\* the result carries the provider's code and (when there is one) message,
\* in its error or through the attached response body
CarriesMessageAndCode(res, rsp) ==
    \/ res.raw_response
    \/ /\ res.error.code = rsp.code
       /\ rsp.msg # "" => res.error.msg = rsp.msg

\* C15 (as claimed): when the response a submit operation (submitAsyncTask,
\* submitVideoTask, submitI2VTask) ends on has HTTP status 200 and an
\* application-level error code, the operation returns a failure that
\* carries the provider's message and the provider's code.
C15_AppErrorCarriesMessageAndCode ==
    [][(SubmitReturns /\ op \in GenerateOps /\ ApplicationError(resp'))
         => /\ ~taskResult'.success
            /\ CarriesMessageAndCode(taskResult', resp')]_vars

\* the mandatory field of the operation is absent from its params
MandatoryAbsent(o, prm) ==
    IF o = "generateI2VVideo" THEN prm.image_url = "" ELSE prm.prompt = ""

\* C16 (as claimed): for every submit operation of every model, when the
\* mandatory field is absent (an empty prompt; for image-to-video, no image
\* URL) the operation returns a failure and no network request is issued.
C16_MissingFieldSendsNothing ==
    [][(SubmitReturns /\ MandatoryAbsent(op, params))
         => /\ ~SubmitResult(op, ret', taskResult').success
            /\ submitLog' = <<>>]_vars

\* a status response that is a failure: no response, a status other than
\* 200, an application error, or a body without data or without a status
QueryFailed(rsp) ==
    \/ rsp.net # "ok"
    \/ rsp.http # 200
    \/ rsp.code # 10000
    \/ ~rsp.hasData
    \/ rsp.st = UNDEFINED

AbsentEverywhere(c) ==
    \/ c.config.accessKey = "" /\ c.env.accessKey = ""
    \/ c.config.secretKey = "" /\ c.env.secretKey = ""

\* C18: constructing a client fails whenever the access key or the secret
\* key is absent from both the configuration and the environment; every
\* client that exists has both credentials, and every request was sent by
\* a client whose two credentials are non-empty.
C18_NoClientWithoutCredentials ==
    /\ (client.state # "none" /\ AbsentEverywhere(client)) => client.state = "failed"
    /\ client.state = "constructed" => (client.accessKey # "" /\ client.secretKey # "")
    /\ (op # "none" \/ Len(submitLog) > 0)
          => /\ client.state = "constructed"
             /\ client.accessKey # ""
             /\ client.secretKey # ""

C18_Witness ==
    /\ client.state = "failed"
    /\ client.config = Credentials("AK", "") /\ client.env = Credentials("", "")
    /\ client.accessKey = "AK" /\ client.secretKey = ""
    /\ op = "none" /\ submitLog = <<>>

\* a failed status query other than a moderation rejection
NonModerationFailure(rsp) ==
    /\ QueryFailed(rsp)
    /\ ~(rsp.net = "ok" /\ rsp.http = 200 /\ rsp.code \in ModerationCodes)
\* the step in which a status query (a call of queryAsyncTask or
\* getVideoTaskResult) returns to the polling loop
QueryReturns == pc = "query" /\ pc' \notin {"query", "queryCooldown", "raised"}

\* C19: in the polling loop of every generate operation a status query that
\* fails (other than by a moderation rejection) does not end the operation:
\* it is followed by one sleep of 5000 ms, it has consumed exactly one of
\* the capped attempts (i advances by one at the end of the sleep, one per
\* status query), and the next status query follows if attempts remain;
\* otherwise the operation returns the polling timeout.
C19_FailedQueryCostsOneAttempt ==
    [][/\ (QueryReturns /\ NonModerationFailure(resp'))
            => /\ ~result'.success
               /\ pc' = "pollSleep"
               /\ sleepMs' = 5000
               /\ i' = i
               /\ nQueries' = i + 1
               /\ ret' = ret
       /\ (pc = "pollSleep" /\ ~result.success)
            => /\ i' = i + 1
               /\ nQueries' = nQueries
               /\ IF i + 1 < maxAttempts(op)
                  THEN pc' = "query" /\ ret' = ret
                  ELSE /\ pc' = "done"
                       /\ ~ret'.success
                       /\ ret'.task_id = taskResult.task_id]_vars

C19_Witness ==
    /\ op \in ImageOps /\ pc = "pollSleep" /\ sleepMs = 5000 /\ i = 1 /\ nQueries = 2
    /\ resp.http = 500 /\ ~result.success /\ result.error.kind = "http"
    /\ ~priorInProgress /\ ~ret.success /\ ret.error = NoError

\* the output URLs a status query result holds
observedUrls(o, r) == IF o \in ImageOps THEN r.data.image_urls ELSE r.video_urls
\* a status query result that reports a terminal outcome
ReportsFailed(r) == r.status = FAILED
ReportsSucceeded(o, r) == r.status = SUCCEEDED /\ Len(observedUrls(o, r)) > 0

\* C20 (as claimed): once a status query reports FAILED, or SUCCEEDED with
\* at least one output URL, the generate operation returns at once, with no
\* further sleep and no further status query, and its result reflects the
\* observation: a failure for FAILED, the observed URLs for SUCCEEDED.
C20_FirstTerminalOutcomeReturned ==
    [][(QueryReturns /\ (ReportsFailed(result') \/ ReportsSucceeded(op, result')))
          => /\ pc' = "done"
             /\ sleepMs' = 0
             /\ ret'.task_id = taskResult.task_id
             /\ ReportsFailed(result') => ~ret'.success
             /\ ReportsSucceeded(op, result')
                  => /\ ret'.success
                     /\ (IF op \in ImageOps THEN ret'.image_urls ELSE ret'.video_urls)
                           = observedUrls(op, result')]_vars

\* C21 (as claimed): every HTTP request the client sends, in every
\* operation, is sent with the client's configured timeout (this.timeout).
C21_EveryRequestHasTimeout ==
    request.fn # "none" => request.timeout = settings.timeout

\* a response received with a status outside 200..299
NonSuccessStatus(rsp) == rsp.net = "ok" /\ (rsp.http < 200 \/ rsp.http > 299)

\* C22 (as claimed): for every HTTP request the client sends, a response
\* with a non-2xx status is delivered to the operation as a (status, body)
\* value: axios does not raise it as an error, and no result of a status
\* query or of a submission reports it as an error raised by axios.
C22_NonSuccessStatusIsData ==
    (request.fn # "none" /\ NonSuccessStatus(resp))
        => /\ ~axiosRaises(request, resp)
           /\ result.error.kind # "axios_status"
           /\ taskResult.error.kind # "axios_status"

SubmitFunctions == {"submitAsyncTask", "submitVideoTask", "submitI2VTask"}
QueryFunctions == {"queryAsyncTask", "getVideoTaskResult"}

\* C30 (as claimed): every status request of a task is signed for the
\* region of the request sent before it for that task, so that all status
\* requests carry the region its submission was signed for (the
\* caller-supplied region, or the client's region when none is supplied).
C30_QueryRegionIsSubmitRegion ==
    [][(/\ pc = "query"
        /\ request.fn \in SubmitFunctions \cup QueryFunctions
        /\ request'.fn \in QueryFunctions)
          => /\ request'.region = request.region
             /\ request'.region = usedRegion(params.region, settings.region)]_vars

\* C23 (as claimed): once the caller's cancellation signal is raised during
\* a sleep of the polling loop, the generate operation sends no further
\* status query, and what it returns is a cancellation error, distinct from
\* the poll-timeout error.
C23_CancellationAbortsPolling ==
    [][signal = "raised"
         => /\ nQueries' = nQueries
            /\ request' = request
            /\ pc' = "done" => (~ret'.success /\ ret'.error.kind = "cancelled")]_vars

\* C24: in every interleaving of two generate operations on one client, each
\* status query carries the task id that the operation's own submission
\* returned, and each returned result carries that task id and the outputs
\* of that task, never those of the other operation.
OutputsOf(r) == {r.image_urls[k] : k \in DOMAIN r.image_urls} \cup {r.video_urls[k] : k \in DOMAIN r.video_urls}
C24_OwnTaskAndOutputs ==
    \A c \in Callers :
        /\ calls[c].request.fn \in QueryFunctions
             => /\ calls[c].request.task_id = calls[c].taskResult.task_id
                /\ calls[c].request.task_id = TaskIdFor(c)
        /\ calls[c].pc = "done"
             => /\ calls[c].ret.task_id \in {"", TaskIdFor(c)}
                /\ OutputsOf(calls[c].ret) \subseteq {OutputOf(TaskIdFor(c))}
C24_Witness ==
    /\ calls[1].pc = "done" /\ calls[1].ret.success
    /\ calls[1].ret.task_id = "T1" /\ calls[1].ret.image_urls = <<OutputOf("T1")>>
    /\ calls[2].pc = "awaitQuery" /\ calls[2].request.task_id = "T2"

\* C25: within one generate operation at most one HTTP request is in flight
\* at any time: a request is in flight exactly while the operation waits
\* for it, so a retry or the next status query is sent only after the
\* previous request has ended.
C25_OneRequestInFlight ==
    \A c \in Callers :
        /\ calls[c].inFlight <= 1
        /\ calls[c].inFlight = 1 <=> calls[c].pc \in {"awaitSubmit", "awaitQuery"}
C25_Witness ==
    /\ calls[2].pc = "awaitSubmit" /\ calls[2].retryCount = 1 /\ calls[2].inFlight = 1
    /\ calls[1].pc = "awaitQuery" /\ calls[1].i = 1 /\ calls[1].inFlight = 1

\* C26: every request an operation sends (each retry of a submission, each
\* status query and each of its retries) goes out with a header set made by
\* a signer call of its own, made when no earlier request of the operation
\* is still in flight, and never with the header set of the request before.
RequestSent(c) == calls'[c].inFlight > calls[c].inFlight
HeadersAt(phase, iter, attempt) == [phase |-> phase, i |-> iter, attempt |-> attempt]
C26_FreshSignaturePerRequest ==
    [][\A c \in Callers :
         RequestSent(c)
           => /\ calls[c].inFlight = 0
              /\ calls'[c].headers # calls[c].headers
              /\ calls'[c].headers =
                     IF calls[c].pc = "submit" THEN HeadersAt("submit", 0, calls[c].retryCount)
                     ELSE HeadersAt("query", calls[c].i, calls[c].queryRetryCount)]_vars
C26_Witness ==
    /\ calls[2].pc = "awaitQuery" /\ calls[2].i = 1 /\ calls[2].queryRetryCount = 1
    /\ calls[2].headers = HeadersAt("query", 1, 1)
    /\ calls[1].pc = "awaitQuery" /\ calls[1].headers = HeadersAt("query", 2, 0)

\* C29: once the client is constructed, no step of any operation, in any
\* interleaving of concurrent operations and whether the operation succeeds
\* or fails, changes the credentials or the configuration of the client
\* (access key, secret key, endpoint, host, region, service, timeout, retries).
C29_ConfigurationIsFrozen ==
    [][client.state = "constructed"
         => /\ client' = client
            /\ settings' = settings
            /\ retries' = retries]_vars
C29_Witness ==
    /\ calls[2].pc = "done" /\ ~calls[2].ret.success
    /\ calls[2].request.region = "t2v"
    /\ calls[1].pc = "awaitQuery" /\ calls[1].request.region = "cn-north-1"
    /\ settings = InitSettings

\* C27: for every query mapping, the output of formatQuery is the key=value
\* pairs of the mapping joined by '&' with the keys in strictly ascending
\* lexicographic order, and two insertion orders of one mapping give the
\* same output.
RECURSIVE PiecesFrom(_, _, _, _)
PiecesFrom(str, sep, k, piece) ==
    IF k > Len(str) THEN <<piece>>
    ELSE IF str[k] = sep THEN <<piece>> \o PiecesFrom(str, sep, k + 1, <<>>)
    ELSE PiecesFrom(str, sep, k + 1, Append(piece, str[k]))
PairsOf(formatted) == IF formatted = <<>> THEN <<>> ELSE PiecesFrom(formatted, "&", 1, <<>>)
EqualsSignAt(pair) == CHOOSE k \in 1..Len(pair) : pair[k] = "=" /\ \A j \in 1..(k - 1) : pair[j] # "="
KeyOfPair(pair) == SubSeq(pair, 1, EqualsSignAt(pair) - 1)
ValueOfPair(pair) == SubSeq(pair, EqualsSignAt(pair) + 1, Len(pair))
EntriesOf(parameters) == {<<parameters[k].key, parameters[k].value>> : k \in DOMAIN parameters}
CanonicalQuery(call) ==
    LET pairs == PairsOf(call.formatted) IN
    /\ Len(pairs) = Len(call.parameters)
    /\ \A k \in DOMAIN pairs : \E j \in DOMAIN pairs[k] : pairs[k][j] = "="
    /\ {<<KeyOfPair(pairs[k]), ValueOfPair(pairs[k])>> : k \in DOMAIN pairs} = EntriesOf(call.parameters)
    /\ \A k \in 1..(Len(pairs) - 1) : StringLess(KeyOfPair(pairs[k]), KeyOfPair(pairs[k + 1]))
C27_FormatQueryIsCanonical ==
    /\ formatting.current.called => CanonicalQuery(formatting.current)
    /\ (/\ formatting.current.called /\ formatting.previous.called
        /\ EntriesOf(formatting.current.parameters) = EntriesOf(formatting.previous.parameters))
          => formatting.current.formatted = formatting.previous.formatted
LowerCaseAction == <<"a","c","t","i","o","n">>
C27_Witness ==
    /\ formatting.current.called /\ formatting.previous.called
    /\ ObjectKeys(formatting.previous.parameters) = <<LowerCaseAction, Version, Action>>
    /\ ObjectKeys(formatting.current.parameters) = <<Version, Action, LowerCaseAction>>
    /\ EntriesOf(formatting.current.parameters) = EntriesOf(formatting.previous.parameters)
    /\ KeyOfPair(PairsOf(formatting.current.formatted)[1]) = Action
    /\ KeyOfPair(PairsOf(formatting.current.formatted)[3]) = LowerCaseAction

\* C28 as stated: the signature is a function of (secret, timestamp, region,
\* service, query, body) only: two signings equal in all six have the same
\* signature, two signings that differ in exactly one of the six have
\* different signatures.  The timestamp is the x-date of the signing, the
\* region the one the signing scope names.
SixInputs(call) ==
    <<call.this.secretKey, <<call.t.day, call.t.time>>,
      IF call.region # "" THEN call.region ELSE call.this.region,
      call.this.service, call.reqQuery, call.reqBody>>
DifferInExactlyOne(x, y) == Cardinality({k \in DOMAIN x : x[k] # y[k]}) = 1
TwoSignings == signing.current.called /\ signing.previous.called
C28_SixInputsOnly ==
    TwoSignings
      => /\ SixInputs(signing.current) = SixInputs(signing.previous)
              => signing.current.signature = signing.previous.signature
         /\ DifferInExactlyOne(SixInputs(signing.current), SixInputs(signing.previous))
              => signing.current.signature # signing.previous.signature

\* C28 amended: the signature is a function of the six inputs and of the
\* host of the client, which is part of the signed canonical headers: two
\* signings equal in all seven have the same signature, two signings that
\* differ in exactly one of the seven have different signatures.
SevenInputs(call) == Append(SixInputs(call), call.this.host)
C28_SevenInputsWithHost ==
    TwoSignings
      => /\ SevenInputs(signing.current) = SevenInputs(signing.previous)
              => signing.current.signature = signing.previous.signature
         /\ DifferInExactlyOne(SevenInputs(signing.current), SevenInputs(signing.previous))
              => signing.current.signature # signing.previous.signature
C28_Witness ==
    /\ TwoSignings
    /\ signing.previous.region = "" /\ signing.current.region = "cn-south-1"
    /\ signing.previous.t.ms # signing.current.t.ms
    /\ DifferInExactlyOne(SevenInputs(signing.current), SevenInputs(signing.previous))
    /\ signing.current.signature # signing.previous.signature

\* C31: each poll attempt of a generate operation sends exactly one status
\* request, so that the status requests of one operation never outnumber
\* the attempt cap of its polling loop: every step that sends a status
\* request starts a new attempt, and the attempts stay within the cap.
C31_OneStatusRequestPerAttempt ==
    [][pc = "query"
         => /\ request'.fn \in QueryFunctions
            /\ nQueries' = nQueries + 1
            /\ nQueries' <= maxAttempts(op)]_vars

\* C32: in generateImage, submitVideoTask and submitI2VTask a missing
\* mandatory parameter is reported as a failure on the first pass through
\* the retry loop: the pass that finds the parameter missing returns the
\* failure, without a retry and without a backoff or cooldown wait.
ValidatingOps == {"generateImage", "generateVideo", "generateI2VVideo"}
C32_ValidationFailsOnFirstPass ==
    [][(pc = "submit" /\ op \in ValidatingOps /\ MandatoryAbsent(op, params))
         => /\ retryCount = 0
            /\ pc' = "done"
            /\ ~ret'.success
            /\ sleepMs' = 0]_vars

\* C33: under the assumption that every HTTP request eventually completes
\* or fails and every sleep eventually ends, every call of an operation
\* eventually returns a result, whatever the responses are.
C33_EveryCallReturns == (pc \notin {"idle", "done"}) ~> (pc = "done")
C33_Witness ==
    /\ op = "generateI2VVideo" /\ pc = "done"
    /\ i = maxAttempts(op) /\ nQueries = maxAttempts(op)
    /\ ret = pollTimeout("T1")

\* C34: when a generate operation returns success = true, its result holds
\* a non-empty list of output URLs, the list of the status result whose
\* normalised status was SUCCEEDED, and the task id of the submission;
\* when it returns success = false, its result holds no output URL.
C34_SuccessCarriesOutputs ==
    (pc = "done" /\ op \in GenerateOps)
      => /\ ret.success
              => /\ Len(outputUrls(op, ret)) > 0
                 /\ outputUrls(op, ret) = reportedUrls(op, result)
                 /\ result.success /\ result.status = SUCCEEDED
                 /\ taskResult.success /\ taskResult.task_id # ""
                 /\ ret.task_id = taskResult.task_id
         /\ ~ret.success => (ret.image_urls = <<>> /\ ret.video_urls = <<>>)
C34_Witness ==
    /\ pc = "done" /\ op = "generateVideo" /\ ret.success /\ i = 2
    /\ ret.video_urls = <<"https://x/a.png", "https://x/b.png">>
    /\ ret.task_id = "T2" /\ result.status = SUCCEEDED

\* C35: the configured retry count is honoured for every non-negative
\* value: the client built from config.retries = cfg (its this.retries is
\* constructorRetries(cfg)) sends at most cfg + 1 requests in generateImage
\* and waits at most cfg times; with cfg = 0 it sends one request and
\* returns the failure of that attempt without any backoff wait.
C35_ConfiguredRetriesHonoured ==
    \A cfg \in 0..MaxCfgRetries :
        (retries = constructorRetries(cfg) /\ op = "generateImage")
          => /\ Len(submitLog) <= cfg + 1
             /\ pc = "backoff" => retryCount <= cfg

\* C36: whenever submitJimengV40Task sends a size field, its value lies in
\* [1048576, 16777216], a smaller size being raised to 1048576 and a larger
\* one lowered to 16777216, also when the size comes through the
\* jimeng-v40-generate tool, which squares a size of at most 4096.
GivenSize ==
    IF submission.viaTool /\ submission.args.size <= 4096 /\ submission.args.width = 0
          /\ submission.args.height = 0
    THEN submission.args.size * submission.args.size
    ELSE submission.args.size
C36_SentSizeInRange ==
    (submission.called /\ submission.body.size # 0)
      => /\ submission.body.size >= 1048576
         /\ submission.body.size <= 16777216
         /\ GivenSize < 1048576 => submission.body.size = 1048576
         /\ GivenSize > 16777216 => submission.body.size = 16777216
         /\ GivenSize \in 1048576..16777216 => submission.body.size = GivenSize
C36_Witness ==
    /\ submission.called /\ submission.viaTool
    /\ submission.args = [width |-> 0, height |-> 0, size |-> 500]
    /\ submission.body = [rejected |-> FALSE, width |-> 0, height |-> 0, size |-> 1048576]

\* C37: the request body of submitJimengV40Task never contains size together
\* with width or height, contains width only together with height, and
\* contains none of width, height and size when exactly one of width and
\* height is supplied.
C37_BodyFieldsExclusive ==
    submission.called
      => /\ submission.body.size # 0
              => submission.body.width = 0 /\ submission.body.height = 0
         /\ submission.body.width # 0 <=> submission.body.height # 0
         /\ (submission.args.width # 0) # (submission.args.height # 0)
              => /\ submission.body.width = 0 /\ submission.body.height = 0
                 /\ submission.body.size = 0
C37_Witness ==
    /\ submission.called /\ ~submission.viaTool
    /\ submission.args = [width |-> 2048, height |-> 0, size |-> 4194304]
    /\ submission.body = [rejected |-> FALSE, width |-> 0, height |-> 0, size |-> 0]

\* C38: when width and height are both supplied and their product is below
\* 1048576 or above 16777216, submitJimengV40Task fails without any network
\* request, and generateJimengV40Image returns that failure with zero
\* submissions and zero status queries.
C38_AreaOutOfRangeFailsOffline ==
    (/\ op = "generateJimengV40Image" /\ pc # "idle"
     /\ params.width # 0 /\ params.height # 0
     /\ \/ params.width * params.height < 1048576
        \/ params.width * params.height > 16777216)
      => /\ pc \in {"submit", "done"}
         /\ request = NoRequest
         /\ submitLog = <<>>
         /\ nQueries = 0
         /\ pc = "done"
              => /\ ~ret.success
                 /\ ~taskResult.success
                 /\ ret.error = taskResult.error
                 /\ ret.error = Err("area_out_of_range", "", params.width * params.height)
C38_Witness ==
    /\ op = "generateJimengV40Image" /\ pc = "done"
    /\ params.width = 4096 /\ params.height = 8192
    /\ ~ret.success /\ ret.error.kind = "area_out_of_range"
    /\ submitLog = <<>> /\ nQueries = 0 /\ request = NoRequest

\* C39: in submitI2VTask an attempt that fails with an image-format error (its
\* text contains 'Image Decode Error', 'image format unsupported' or
\* 'image url') ends the operation at once with a failure: no cooldown wait
\* and no further attempt.
C39_ImageFormatErrorEndsAtOnce ==
    [][(/\ pc = "submit" /\ op = "generateI2VVideo" /\ Len(submitLog') = Len(submitLog) + 1
        /\ resp' \in {AppError(50000, m) : m \in ImageFormatTexts})
         => /\ pc' = "done"
            /\ sleepMs' = 0
            /\ ~ret'.success
            /\ ret'.error.kind = "image_format"
            /\ ret'.error.msg = resp'.msg
            /\ nQueries' = 0]_vars
C39_Witness ==
    /\ pc = "done" /\ op = "generateI2VVideo"
    /\ Len(submitLog) = 2
    /\ resp = AppError(50000, "image url")
    /\ ~ret.success /\ ret.error.kind = "image_format" /\ ret.error.msg = "image url"
====
